---- MODULE Spec2Model ----
(***************************************************************************)
(* Model of the batch mailbox-verification engine of emailval:             *)
(*   modules/job_tracker.py      JobTracker (job progress state)           *)
(*   modules/smtp_check_async.py validate_smtp_single and the worker pool  *)
(*   app.py                      run_smtp_validation_background            *)
(*                                                                         *)
(* Python values: None is the string "None"; a str is a sequence of        *)
(* tokens (the token "@" is the at sign, every other token stands for a    *)
(* run of characters without "@").                                         *)
(***************************************************************************)
EXTENDS Integers, Sequences, FiniteSets, TLC

None == "None"
\* None in the place of an optional int argument (valid_count: int = None)
NoCount == -1

(***************************************************************************)
(* Bounds of the model.                                                    *)
(***************************************************************************)
\* largest total_emails of a job of the tracker specification; counters
\* passed to update_progress range over 0..MaxCount+1
MaxCount == 1

VARIABLES
    jobs,       \* JobTracker.jobs: job id -> job record
    disk,       \* contents of data/validation_jobs.json (last _save_jobs)
    lock,       \* JobTracker.lock is held
    call,       \* per thread: the JobTracker method it is executing
    serial,     \* history: jobs as left by the calls run one at a time, in
                \* the order in which they took the lock
    overlapped, \* history: some call was made while another held the lock
    units,      \* the two loops of one run, reduced to their control: the unit
                \* (address) last completed and whether it pushed an update
    tracker,    \* EmailTracker: data["emails"], data["stats"]["total_uploads"],
                \* history of the keys tracked, and the last call with its result
    eta,        \* one poll of estimate_time_remaining: the time since the
                \* job's started_at, the job as the call read it, what it returned
    dcall,      \* validate_domain calls of concurrent threads: where each call
                \* is, DNS resolutions made per domain, first result per domain
    detect,     \* one check_catchall_domain call: the behaviour of the server in
                \* each trial, the loop counters, and what it returned
    probe,      \* one validate_smtp_single call: its arguments, the behaviour
                \* of the remote server, and what it returned
    \* run_smtp_validation_background (app.py), one run:
    emails,             \* emails_to_validate
    effective_include_smtp, \* include_smtp and SMTP_ENABLED
    rpc,                \* where the background thread is in the function
    validation_results, \* the list of the same name
    domain_cache,       \* domain_check._DOMAIN_CACHE
    email_domain_map,   \* the dict of the same name
    pool,               \* the ThreadPoolExecutor of validate_smtp_batch_with_progress
    smtp_results,       \* what validate_smtp_batch_with_progress returned
    catchall_results,   \* what check_catchall_for_domains returned
    catchall_checks,    \* history: catch-all detections run, per domain
    exc                 \* the exception caught by the except clause, if any

trackerVars == <<jobs, disk, lock, call, serial, overlapped>>
probeVars == <<probe, detect, dcall, eta, units, tracker>>
runVars == <<emails, effective_include_smtp, rpc, validation_results, domain_cache, email_domain_map,
             pool, smtp_results, catchall_results, catchall_checks, exc>>

vars == <<jobs, disk, lock, call, serial, overlapped, probe, detect, dcall, eta, units, tracker,
          emails, effective_include_smtp, rpc, validation_results, domain_cache, email_domain_map,
          pool, smtp_results, catchall_results, catchall_checks, exc>>

(***************************************************************************)
(* JobTracker (modules/job_tracker.py)                                     *)
(***************************************************************************)
\* job ids that create_job hands out in this model (uuid4()[:8] in the
\* code), and one id that is never created
JobIds == {"j1"}
UnknownJobId == "jx"
CallJobIds == JobIds \cup {UnknownJobId}

\* threads calling into the tracker
Threads == {"t1", "t2"}

\* the record create_job stores (job_id, started_at, session_info and
\* webhook_url are written once here and never again: left out)
NewJob(total_emails) ==
    [ status           |-> "pending",
      total_emails     |-> total_emails,
      validated_count  |-> 0,
      valid_count      |-> 0,
      invalid_count    |-> 0,
      disposable_count |-> 0,
      role_based_count |-> 0,
      personal_count   |-> 0,
      completed_at     |-> None,
      error            |-> None ]

\* the parameters of update_progress after job_id, in positional order
UpdateFields ==
    << "validated_count", "valid_count", "invalid_count",
       "disposable_count", "role_based_count", "personal_count" >>

\* number of statements of update_progress's body that write the job:
\* the six counters, then the status
UpdateWrites == Len(UpdateFields) + 1

UpdateWriteOfEveryJob(js, job_id, a, k) ==
    IF k <= Len(UpdateFields)
    THEN IF k = 1 \/ a[UpdateFields[k]] /= NoCount
         THEN [j \in DOMAIN js |-> [js[j] EXCEPT ![UpdateFields[k]] = a[UpdateFields[k]]]]
         ELSE js
    ELSE IF js[job_id].status = "pending"
         THEN [js EXCEPT ![job_id].status = "running"]
         ELSE js
\* the k-th write of update_progress(job_id, a) on the jobs map js
UpdateWrite(js, job_id, a, k) ==
    IF k <= Len(UpdateFields)
    THEN IF k = 1 \/ a[UpdateFields[k]] /= NoCount
         THEN [js EXCEPT ![job_id][UpdateFields[k]] = a[UpdateFields[k]]]
         ELSE js
    ELSE IF js[job_id].status = "pending"
         THEN [js EXCEPT ![job_id].status = "running"]
         ELSE js

RECURSIVE UpdateFrom(_, _, _, _)
UpdateFrom(js, job_id, a, k) ==
    IF k > UpdateWrites THEN js
    ELSE UpdateFrom(UpdateWrite(js, job_id, a, k), job_id, a, k + 1)

\* update_progress as one uninterrupted call
update_progress(js, job_id, a) ==
    IF job_id \in DOMAIN js THEN UpdateFrom(js, job_id, a, 1) ELSE js

\* Python truthiness of the error argument of complete_job
Truthy(s) == s /= None /\ s /= ""

\* number of writes of complete_job's body: status, completed_at, error
CompleteWrites == 3

\* the k-th write of complete_job(job_id, success, error)
CompleteWrite(js, job_id, a, k) ==
    CASE k = 1 -> [js EXCEPT ![job_id].status =
                        IF a.success THEN "completed" ELSE "failed"]
      [] k = 2 -> [js EXCEPT ![job_id].completed_at = "set"]
      [] OTHER -> IF Truthy(a.error)
                  THEN [js EXCEPT ![job_id].error = a.error]
                  ELSE js

RECURSIVE CompleteFrom(_, _, _, _)
CompleteFrom(js, job_id, a, k) ==
    IF k > CompleteWrites THEN js
    ELSE CompleteFrom(CompleteWrite(js, job_id, a, k), job_id, a, k + 1)

\* complete_job as one uninterrupted call
complete_job(js, job_id, a) ==
    IF job_id \in DOMAIN js THEN CompleteFrom(js, job_id, a, 1) ELSE js

\* get_progress_percent as the fraction num/den (0.0 is 0/1); "not job"
\* is the job id missing from self.jobs
get_progress_percent(js, job_id) ==
    IF job_id \notin DOMAIN js \/ js[job_id].total_emails = 0
    THEN [num |-> 0, den |-> 1]
    ELSE [num |-> js[job_id].validated_count * 100,
          den |-> js[job_id].total_emails]

\* timedelta.total_seconds(): a timedelta is a whole number of microseconds
MicrosPerSecond == 1000000

\* int(x) of Python for x = n/d with d > 0: truncation toward zero
IntOf(n, d) == IF n >= 0 THEN n \div d ELSE -((-n) \div d)

\* estimate_time_remaining returned None
NoEstimate == [none |-> TRUE, seconds |-> 0]

estimate_time_remainingOfAnyStatus(js, job_id, elapsed) ==
    IF job_id \notin DOMAIN js THEN NoEstimate
    ELSE LET validated == js[job_id].validated_count
             total     == js[job_id].total_emails
         IN IF validated = 0 THEN NoEstimate
            ELSE [none |-> FALSE,
                  seconds |-> IntOf((total - validated) * elapsed,
                                    validated * MicrosPerSecond)]
\* estimate_time_remaining(job_id) called when elapsed microseconds have
\* passed since the job's started_at (lines 111-130):
\* int(remaining_emails * (elapsed / validated))
estimate_time_remaining(js, job_id, elapsed) ==
    IF job_id \notin DOMAIN js \/ js[job_id].status /= "running" THEN NoEstimate
    ELSE LET validated == js[job_id].validated_count
             total     == js[job_id].total_emails
         IN IF validated = 0 THEN NoEstimate
            ELSE [none |-> FALSE,
                  seconds |-> IntOf((total - validated) * elapsed,
                                    validated * MicrosPerSecond)]

PercentExceeds100(p) == p.num > 100 * p.den
PercentIs100(p) == p.num = 100 * p.den

(***************************************************************************)
(* Threads calling the tracker.  A call takes the lock (with self.lock),   *)
(* runs its writes one statement at a time, saves and releases.            *)
(***************************************************************************)
IdleCall == [op |-> "idle", job_id |-> None, a |-> None, pc |-> 0]

\* the guard of "with self.lock:": Lock.acquire blocks while it is held
LockAvailableNoLock == TRUE
LockAvailable == ~lock

\* counters a caller may pass
CountArgs == 0 .. (MaxCount + 1)
\* the arguments of one call: the optional counters all left out (as
\* progress_callback calls it), or all given (as the pre-check loop does)
UpdateArgs ==
    { [validated_count  |-> n,
       valid_count      |-> NoCount,
       invalid_count    |-> NoCount,
       disposable_count |-> NoCount,
       role_based_count |-> NoCount,
       personal_count   |-> NoCount] : n \in CountArgs }
    \cup
    { [validated_count  |-> n,
       valid_count      |-> n,
       invalid_count    |-> 0,
       disposable_count |-> 0,
       role_based_count |-> 0,
       personal_count   |-> n] : n \in CountArgs }
CompleteArgs ==
    { [success |-> TRUE, error |-> None],
      [success |-> FALSE, error |-> "error message"],
      [success |-> FALSE, error |-> ""] }

\* a thread calls update_progress / complete_job: it is now waiting for the lock
CallUpdateProgress(t) ==
    /\ call[t].op = "idle"
    /\ \E job_id \in CallJobIds, a \in UpdateArgs :
          call' = [call EXCEPT ![t] =
                      [op |-> "update_progress", job_id |-> job_id, a |-> a, pc |-> 0]]
    /\ UNCHANGED <<jobs, disk, lock, serial, overlapped, probeVars, runVars>>

CallCompleteJob(t) ==
    /\ call[t].op = "idle"
    /\ \E job_id \in CallJobIds, a \in CompleteArgs :
          call' = [call EXCEPT ![t] =
                      [op |-> "complete_job", job_id |-> job_id, a |-> a, pc |-> 0]]
    /\ UNCHANGED <<jobs, disk, lock, serial, overlapped, probeVars, runVars>>

\* with self.lock: / if job_id in self.jobs:
Acquire(t) ==
    /\ call[t].op \in {"update_progress", "complete_job"}
    /\ call[t].pc = 0
    /\ LockAvailable
    /\ lock' = TRUE
    /\ call' = [call EXCEPT ![t].pc = 1]
    /\ serial' = IF call[t].op = "update_progress"
                 THEN update_progress(serial, call[t].job_id, call[t].a)
                 ELSE complete_job(serial, call[t].job_id, call[t].a)
    /\ UNCHANGED <<jobs, disk, overlapped, probeVars, runVars>>

Writes(op) == IF op = "update_progress" THEN UpdateWrites ELSE CompleteWrites

\* one statement of the body
WriteStep(t) ==
    /\ call[t].op \in {"update_progress", "complete_job"}
    /\ call[t].pc \in 1 .. Writes(call[t].op)
    /\ call[t].job_id \in DOMAIN jobs
    /\ jobs' = IF call[t].op = "update_progress"
               THEN UpdateWrite(jobs, call[t].job_id, call[t].a, call[t].pc)
               ELSE CompleteWrite(jobs, call[t].job_id, call[t].a, call[t].pc)
    /\ call' = [call EXCEPT ![t].pc = @ + 1]
    /\ UNCHANGED <<disk, lock, serial, overlapped, probeVars, runVars>>

\* self._save_jobs() and the end of the with block; an unknown job id
\* skips the body and only releases the lock
SaveAndRelease(t) ==
    /\ call[t].op \in {"update_progress", "complete_job"}
    /\ \/ /\ call[t].job_id \in DOMAIN jobs
          /\ call[t].pc = Writes(call[t].op) + 1
          /\ disk' = jobs
       \/ /\ call[t].job_id \notin DOMAIN jobs
          /\ call[t].pc = 1
          /\ disk' = disk
    /\ lock' = FALSE
    /\ call' = [call EXCEPT ![t] = IdleCall]
    /\ overlapped' = (overlapped \/ \E u \in DOMAIN call \ {t} : call[u].op /= "idle")
    /\ UNCHANGED <<jobs, serial, probeVars, runVars>>

\* create_job(total_emails): under the lock, one dict store and a save
CreateJob(t) ==
    /\ call[t].op = "idle"
    /\ LockAvailable
    /\ \E job_id \in JobIds \ DOMAIN jobs, total_emails \in 1 .. MaxCount :
          /\ jobs' = [j \in DOMAIN jobs \cup {job_id} |->
                         IF j = job_id THEN NewJob(total_emails) ELSE jobs[j]]
          /\ serial' = [j \in DOMAIN serial \cup {job_id} |->
                         IF j = job_id THEN NewJob(total_emails) ELSE serial[j]]
    /\ disk' = jobs'
    /\ UNCHANGED <<lock, call, overlapped, probeVars, runVars>>

(***************************************************************************)
(* Strings (modules/utils.py)                                              *)
(***************************************************************************)
At == "@"

Contains(str, tok) == \E i \in 1 .. Len(str) : str[i] = tok

\* position of the last "@" of a string that has one
LastAt(str) == CHOOSE i \in 1 .. Len(str) :
                  str[i] = At /\ \A j \in (i + 1) .. Len(str) : str[j] /= At

\* extract_domain: "" without an "@", else email.split('@')[-1]
extract_domain(email) ==
    IF ~Contains(email, At) THEN << >>
    ELSE SubSeq(email, LastAt(email) + 1, Len(email))

(***************************************************************************)
(* validate_domain (modules/domain_check.py): the record it returns for    *)
(* the outcomes of the MX and the A lookup                                 *)
(***************************************************************************)
DnsOutcomes == {"found", "NXDOMAIN", "NoAnswer", "NoNameservers", "Timeout", "Exception"}

\* the error appended for a failed MX lookup (NoAnswer appends none)
MxErrors(mx) ==
    CASE mx = "NXDOMAIN"      -> << "does not exist" >>
      [] mx = "NoNameservers" -> << "No nameservers" >>
      [] mx = "Timeout"       -> << "timeout" >>
      [] mx = "Exception"     -> << "DNS MX lookup error" >>
      [] OTHER                -> << >>

InErrors(errors, e) == \E i \in 1 .. Len(errors) : errors[i] = e

\* the messages that spell out the domain ("Domain {domain} does not
\* exist", "... for domain {domain}"); the others are named by their text
MessagesWithDomain == {"does not exist", "No nameservers", "timeout", "has no A records"}

\* needle in str(errors), lines 63, 68, 71: the text is found in a message
\* of that kind, or in the domain that a message spells out
InStrOfErrors(errors, domain, needle) ==
    \E i \in 1 .. Len(errors) :
        \/ errors[i] = needle
        \/ errors[i] \in MessagesWithDomain /\ Contains(domain, needle)

\* the errors after the A lookup, which runs only without MX records
AErrors(domain, errors, a) ==
    CASE a = "NXDOMAIN"      -> IF InStrOfErrors(errors, domain, "does not exist") THEN errors
                                ELSE Append(errors, "does not exist")
      [] a = "NoAnswer"      -> Append(errors, "has no A records")
      [] a = "NoNameservers" -> IF InStrOfErrors(errors, domain, "No nameservers") THEN errors
                                ELSE Append(errors, "No nameservers")
      [] a = "Timeout"       -> IF InStrOfErrors(errors, domain, "timeout") THEN errors
                                ELSE Append(errors, "timeout")
      [] a = "Exception"     -> Append(errors, "DNS A lookup error")
      [] OTHER               -> errors

ResolveDomainMxOnly(domain, mx, a) ==
    LET has_mx == mx = "found"
        errs   == MxErrors(mx)
    IN [ valid      |-> has_mx,
         has_mx     |-> has_mx,
         has_a      |-> FALSE,
         mx_records |-> IF has_mx THEN << "mx." >> ELSE << >>,
         errors     |-> IF ~has_mx /\ errs = << >>
                        THEN << "no valid MX or A records" >> ELSE errs ]
\* the result of an uncached validate_domain for domain whose lookups end
\* as mx and a (a is what the A query would answer: it is made only
\* without MX records)
ResolveDomain(domain, mx, a) ==
    LET has_mx == mx = "found"
        has_a  == ~has_mx /\ a = "found"
        errs   == IF has_mx THEN MxErrors(mx) ELSE AErrors(domain, MxErrors(mx), a)
        valid  == has_mx \/ has_a
    IN [ valid      |-> valid,
         has_mx     |-> has_mx,
         has_a      |-> has_a,
         mx_records |-> IF has_mx THEN << "mx." >> ELSE << >>,
         errors     |-> IF ~valid /\ errs = << >>
                        THEN << "no valid MX or A records" >> ELSE errs ]

\* the queries one uncached validate_domain call sends to the resolver
QueriesMade(mx) == IF mx = "found" THEN << "MX" >> ELSE << "MX", "A" >>

\* the record validate_domain returns without a domain
NoDomainRecord ==
    [ valid |-> FALSE, has_mx |-> FALSE, has_a |-> FALSE, mx_records |-> << >>,
      errors |-> << "Could not extract domain from email" >> ]

(***************************************************************************)
(* validate_smtp_single (modules/smtp_check_async.py)                      *)
(***************************************************************************)
\* What the network and the remote server do in one session.  The steps of
\* the session are the SMTP(host, timeout) constructor, helo, mail and rcpt
\* of the with block, and the QUIT that leaving the with block sends.
\* fail_step is the step that fails ("none": all succeed), fail_kind how,
\* code the reply to RCPT TO when rcpt is reached.
SessionSteps == << "connect", "helo", "mail", "rcpt", "quit" >>
FailKinds ==
    { "socket.timeout", "ConnectionRefusedError", "socket.gaierror",
      "SMTPServerDisconnected", "SMTPResponseException", "Exception" }
\* failures of the closing QUIT: no reply in time, connection dropped, or
\* a reply other than 221
QuitFailKinds == { "socket.timeout", "SMTPServerDisconnected", "SMTPResponseException" }
RcptCodes == { 250, 251, 252, 450, 451, 452, 455, 550, 421, 554, 553 }

Sessions ==
    { [fail_step |-> "none", fail_kind |-> "none", code |-> c] : c \in RcptCodes }
    \cup
    { [fail_step |-> SessionSteps[i], fail_kind |-> k, code |-> 250]
        : i \in 1 .. 4, k \in FailKinds }
    \cup
    { [fail_step |-> "quit", fail_kind |-> k, code |-> c]
        : k \in QuitFailKinds, c \in RcptCodes }

\* the RCPT reply is read: no step before the QUIT fails
RcptAnswered(s) == s.fail_step \in {"none", "quit"}

\* an exception leaves the with statement.  A failure of connect, helo, mail
\* or rcpt raises.  Leaving the block sends QUIT: a reply other than 221
\* raises SMTPResponseException, while a timeout or a dropped connection
\* there is SMTPServerDisconnected, which SMTP.__exit__ swallows.
SessionRaises(s) ==
    \/ ~RcptAnswered(s)
    \/ s.fail_step = "quit" /\ s.fail_kind = "SMTPResponseException"

major_providers ==
    { "gmail.com", "yahoo.com", "hotmail.com", "outlook.com",
      "aol.com", "icloud.com", "live.com", "msn.com" }

\* any(provider in domain.lower() for provider in major_providers): a
\* substring test
IsMajorProvider(domain) == \E i \in 1 .. Len(domain) : domain[i] \in major_providers

\* lines 100-151: mailbox_exists, smtp_status, confidence and the error for
\* the RCPT reply code
ClassifyRcptTemporaryAsLow(code, domain) ==
    IF code \in {250, 251}
    THEN [mailbox_exists |-> TRUE, smtp_status |-> "verified",
          confidence |-> "high", errors |-> << >>]
    ELSE IF code = 550 /\ ~IsMajorProvider(domain)
    THEN [mailbox_exists |-> FALSE, smtp_status |-> "invalid",
          confidence |-> "high", errors |-> << "Mailbox doesn't exist" >>]
    ELSE [mailbox_exists |-> TRUE, smtp_status |-> "unverifiable",
          confidence |-> "low", errors |-> << "Unknown SMTP code" >>]
ClassifyRcpt(code, domain) ==
    CASE code \in {250, 251} ->
            [mailbox_exists |-> TRUE, smtp_status |-> "verified",
             confidence |-> "high", errors |-> << >>]
      [] code \in {450, 451, 452} ->
            [mailbox_exists |-> TRUE, smtp_status |-> "unverifiable",
             confidence |-> "medium", errors |-> << "Temporary failure" >>]
      [] code = 550 ->
            IF IsMajorProvider(domain)
            THEN [mailbox_exists |-> TRUE, smtp_status |-> "unverifiable",
                  confidence |-> "medium", errors |-> << "Provider blocks verification" >>]
            ELSE [mailbox_exists |-> FALSE, smtp_status |-> "invalid",
                  confidence |-> "high", errors |-> << "Mailbox doesn't exist" >>]
      [] code \in {421, 554} ->
            [mailbox_exists |-> TRUE, smtp_status |-> "unverifiable",
             confidence |-> "low", errors |-> << "Service unavailable" >>]
      [] OTHER ->
            [mailbox_exists |-> TRUE, smtp_status |-> "unverifiable",
             confidence |-> "low", errors |-> << "Unknown SMTP code" >>]

\* the state of the local variables before the try (lines 83-86)
Unclassified ==
    [mailbox_exists |-> FALSE, smtp_status |-> "unknown",
     confidence |-> "low", errors |-> << >>]

\* the except clause (lines 153-166): every exception fails open; errors
\* collected before it are kept
ExceptHandlerKeepsVerdict(c) ==
    [c EXCEPT !.errors = Append(c.errors, "SMTP error")]
ExceptHandler(c) ==
    [mailbox_exists |-> TRUE, smtp_status |-> "unverifiable",
     confidence |-> "low", errors |-> Append(c.errors, "SMTP error")]

\* the try statement for a session s: the locals after it
TrySession(domain, s) ==
    LET c == IF RcptAnswered(s) THEN ClassifyRcpt(s.code, domain) ELSE Unclassified
    IN IF SessionRaises(s) THEN ExceptHandler(c) ELSE c

\* lines 64-75: a domain record that is not valid skips the probe
SkipsProbeNever(domain_check) == FALSE
SkipsProbe(domain_check) == ~domain_check.valid

StepIndex(step) == CHOOSE i \in 1 .. Len(SessionSteps) : SessionSteps[i] = step

\* the steps of the SMTP session that validate_smtp_single attempts: none
\* when it returns before the try statement, else those up to the failing one
SessionTrace(email, domain_check, s) ==
    IF extract_domain(email) = << >> \/ SkipsProbe(domain_check) THEN << >>
    ELSE IF s.fail_step = "none" THEN SessionSteps
    ELSE SubSeq(SessionSteps, 1, StepIndex(s.fail_step))

\* the dict validate_smtp_single returns; "absent" stands for a missing key.
\* domain_check is
\* domain_info when the caller passed it, else validate_domain(email).
validate_smtp_single(email, domain_check, s) ==
    LET domain == extract_domain(email) IN
    IF domain = << >>
    THEN [ valid |-> FALSE, mailbox_exists |-> FALSE, smtp_status |-> "absent",
           confidence |-> "absent", skipped |-> FALSE,
           errors |-> << "Could not extract domain from email" >> ]
    ELSE IF SkipsProbe(domain_check)
    THEN [ valid |-> FALSE, mailbox_exists |-> FALSE, smtp_status |-> "absent",
           confidence |-> "absent", skipped |-> TRUE,
           errors |-> IF domain_check.errors /= << >> THEN domain_check.errors
                      ELSE << "Domain has no valid MX or A records" >> ]
    ELSE LET c == TrySession(domain, s) IN
         [ valid |-> c.mailbox_exists, mailbox_exists |-> c.mailbox_exists,
           smtp_status |-> c.smtp_status, confidence |-> c.confidence,
           skipped |-> FALSE, errors |-> c.errors ]

\* the addresses and domain records validate_smtp_single is applied to
ProbeEmails ==
    { << "a", At, "x.com" >>, << "a", At, "gmail.com" >>,
      << "a", At, "mail.", "gmail.com" >>, << "a", At, "not", "gmail.com" >>,
      << "a" >> }
ProbeDomainChecks ==
    { ResolveDomain(<< "x.com" >>, o[1], o[2]) :
        o \in { <<"found", "found">>, <<"NoAnswer", "found">>,
                <<"NXDOMAIN", "NXDOMAIN">>, <<"Timeout", "NoAnswer">> } }

NoProbe == [pc |-> "idle"]
NoDetect == [pc |-> "idle"]
NoDcall == [pc |-> "idle"]

\* no estimate_time_remaining poll takes place
NoEta == [pc |-> "idle"]

\* no run is followed unit by unit
NoUnits == [pc |-> "idle"]

\* no EmailTracker is in use
NoTracker == [pc |-> "idle"]

(***************************************************************************)
(* The pre-checks of one address (app.py validate_email_complete,          *)
(* modules/utils.py, syntax_check.py, type_check.py)                       *)
(***************************************************************************)
EmptyMap == << >>

Put(f, k, v) == [x \in DOMAIN f \cup {k} |-> IF x = k THEN v ELSE f[x]]

\* str.lower() on the tokens of this model
LowerTok(tok) ==
    CASE tok = "A" -> "a"
      [] tok = "X.COM" -> "x.com"
      [] OTHER -> tok

RECURSIVE LStrip(_)
LStrip(str) == IF str /= << >> /\ Head(str) = " " THEN LStrip(Tail(str)) ELSE str

RECURSIVE RStrip(_)
RStrip(str) ==
    IF str /= << >> /\ str[Len(str)] = " "
    THEN RStrip(SubSeq(str, 1, Len(str) - 1)) ELSE str

\* normalize_email: email.strip().lower(), "" for a falsy email
normalize_email(email) ==
    IF email = << >> THEN << >>
    ELSE LET t == RStrip(LStrip(email)) IN [i \in 1 .. Len(t) |-> LowerTok(t[i])]

\* validate_syntax on token strings: non-empty, has an "@", the parts around
\* the last "@" are non-empty, and (EMAIL_REGEX) the local part holds no "@"
\* and no blank; every other token stands for characters the regex accepts
validate_syntax(email) ==
    /\ email /= << >>
    /\ Contains(email, At)
    /\ LET local_part  == SubSeq(email, 1, LastAt(email) - 1)
           domain_part == SubSeq(email, LastAt(email) + 1, Len(email))
       IN /\ local_part /= << >>
          /\ domain_part /= << >>
          /\ ~Contains(local_part, At)
          /\ ~Contains(email, " ")

DISPOSABLE_DOMAINS == { "mailinator.com", "yopmail.com", "tempmail.com" }
ROLE_BASED_PREFIXES == { "admin", "info", "support", "sales" }

FirstAt(str) == CHOOSE i \in 1 .. Len(str) :
                   str[i] = At /\ \A j \in 1 .. (i - 1) : str[j] /= At

\* validate_type: is_disposable and is_role_based
validate_type(email) ==
    LET domain == extract_domain(email) IN
    IF domain = << >>
    THEN [is_disposable |-> FALSE, is_role_based |-> FALSE]
    ELSE LET local_part == SubSeq(email, 1, FirstAt(email) - 1) IN
         [ is_disposable |-> Len(domain) = 1 /\ LowerTok(domain[1]) \in DISPOSABLE_DOMAINS,
           is_role_based |-> Len(local_part) = 1
                             /\ LowerTok(local_part[1]) \in ROLE_BASED_PREFIXES ]

\* validate_domain(email) against the cache: the cached record, or the
\* record of fresh lookups ending as mx and a
validate_domain(cache, email, mx, a) ==
    LET domain == extract_domain(email) IN
    IF domain = << >> THEN NoDomainRecord
    ELSE IF domain \in DOMAIN cache THEN cache[domain]
    ELSE ResolveDomain(domain, mx, a)

\* _DOMAIN_CACHE after validate_domain(email)
CacheAfter(cache, email, mx, a) ==
    LET domain == extract_domain(email) IN
    IF domain = << >> \/ domain \in DOMAIN cache THEN cache
    ELSE Put(cache, domain, ResolveDomain(domain, mx, a))

NoSmtp == [present |-> FALSE]
NoCatchall == [present |-> FALSE]

\* validate_email_complete(email, include_smtp=False); the deliverability
\* score it adds is read by no code of this model and left out
validate_email_complete(cache, raw_email, mx, a) ==
    LET email == normalize_email(raw_email)
        dom   == validate_domain(cache, email, mx, a)
        type  == validate_type(email)
    IN [ email         |-> email,
         valid         |-> validate_syntax(email) /\ dom.valid,
         domain        |-> dom,
         is_disposable |-> type.is_disposable,
         is_role_based |-> type.is_role_based,
         smtp          |-> NoSmtp,
         catchall      |-> NoCatchall,
         warnings      |-> << >> ]

(***************************************************************************)
(* run_smtp_validation_background (app.py): pure parts                     *)
(***************************************************************************)
RunJob == "j1"

\* the default of max_smtp_workers
DefaultSmtpWorkers == 20

\* lines 303-313: SMTP_MAX_WORKERS unset or empty, not an integer, or an
\* integer, clamped to at least 1
MaxSmtpWorkers(env) ==
    LET n == IF ~env.set THEN DefaultSmtpWorkers
             ELSE IF ~env.is_int THEN DefaultSmtpWorkers
             ELSE env.value
    IN IF n < 1 THEN 1 ELSE n

\* PRECHECK_WEIGHT and SMTP_WEIGHT with SMTP enabled, in tenths
PrecheckWeightTenths == 4
SmtpWeightTenths == 6

\* lines 126-147: whether the pre-check loop pushes an update after
\* completed_precheck addresses; elapsed: a second has passed since the last
ShouldUpdate(completed_precheck, total_emails, elapsed) ==
    LET UPDATE_BATCH_SIZE == IF total_emails > 200 THEN 10 ELSE 1 IN
    \/ completed_precheck % UPDATE_BATCH_SIZE = 0
    \/ elapsed
    \/ completed_precheck = total_emails

CountValid(results) ==
    Cardinality({i \in 1 .. Len(results) : results[i].valid})
CountDisposable(results) ==
    Cardinality({i \in 1 .. Len(results) : results[i].is_disposable})
CountRoleBased(results) ==
    Cardinality({i \in 1 .. Len(results) : results[i].is_role_based})

\* lines 150-161 (and 197-210, 380-393 with n = total_emails): the counters
\* pushed with n addresses processed
StatsArgs(results, n) ==
    LET valid      == CountValid(results)
        disposable == CountDisposable(results)
        role_based == CountRoleBased(results)
    IN [ validated_count  |-> n,
         valid_count      |-> valid,
         invalid_count    |-> n - valid,
         disposable_count |-> disposable,
         role_based_count |-> role_based,
         personal_count   |-> valid - disposable - role_based ]

\* progress_callback, lines 275-279: int(total_emails * min(1.0, 0.4 + 0.6 *
\* (completed_smtp / max(total_smtp, 1)))).  The floor of the exact value,
\* which is what the double arithmetic gives for every total up to 17.
EffectiveValidated(total_emails, completed_smtp, total_smtp) ==
    LET den == 10 * (IF total_smtp > 1 THEN total_smtp ELSE 1)
        num == PrecheckWeightTenths * (den \div 10) + SmtpWeightTenths * completed_smtp
    IN IF num >= den THEN total_emails ELSE (total_emails * num) \div den

CallbackArgs(total_emails, completed_smtp, total_smtp) ==
    [ validated_count  |-> EffectiveValidated(total_emails, completed_smtp, total_smtp),
      valid_count      |-> NoCount,
      invalid_count    |-> NoCount,
      disposable_count |-> NoCount,
      role_based_count |-> NoCount,
      personal_count   |-> NoCount ]

\* positional parameters of update_progress (job_id and the six counters)
\* and the positional arguments of its calls in app.py
UpdateProgressParams == Len(UpdateFields) + 1
PrecheckUpdateArgc == 7
CallbackUpdateArgc == 2
FinalUpdateArgc == 8

\* lines 250-262: email -> domain record of phase 1, results without an
\* email skipped
EmailDomainMapSkippingInvalid(results) ==
    LET idx == {i \in 1 .. Len(results) : results[i].email /= << >> /\ results[i].valid}
    IN [e \in {results[i].email : i \in idx} |->
           LET i == CHOOSE i \in idx : results[i].email = e /\
                       \A j \in idx : results[j].email = e => j <= i
           IN results[i].domain]
EmailDomainMap(results) ==
    LET idx == {i \in 1 .. Len(results) : results[i].email /= << >>}
    IN [e \in {results[i].email : i \in idx} |->
           LET i == CHOOSE i \in idx : results[i].email = e /\
                       \A j \in idx : results[j].email = e => j <= i
           IN results[i].domain]

\* the dict stored for a future that raised (lines 265-275)
ThreadErrorResult ==
    [ valid |-> FALSE, mailbox_exists |-> FALSE, smtp_status |-> "unknown",
      confidence |-> "low", skipped |-> FALSE, errors |-> << "Thread error" >> ]

\* ThreadPoolExecutor.submit starts a thread only below max_workers
CanSpawnUnbounded(nthreads, max_workers) == TRUE
CanSpawn(nthreads, max_workers) == nthreads < max_workers

\* check_catchall_domain (modules/catchall_check.py lines 98-118): the
\* verdict for the counts of accepted and rejected trials
num_tests == 2
check_catchall_domainAnyAcceptMedium(accepts_count, rejects_count) ==
    IF accepts_count = 0 /\ rejects_count = 0
    THEN [is_catchall |-> FALSE, confidence |-> "low",
          errors |-> << "Unable to determine catch-all status" >>]
    ELSE IF accepts_count > 0
    THEN [is_catchall |-> TRUE, confidence |-> "medium", errors |-> << >>]
    ELSE [is_catchall |-> FALSE, confidence |-> "high", errors |-> << >>]
check_catchall_domain(accepts_count, rejects_count) ==
    IF accepts_count = 0 /\ rejects_count = 0
    THEN [is_catchall |-> FALSE, confidence |-> "low",
          errors |-> << "Unable to determine catch-all status" >>]
    ELSE IF accepts_count = num_tests
    THEN [is_catchall |-> TRUE, confidence |-> "high", errors |-> << >>]
    ELSE IF accepts_count > 0
    THEN [is_catchall |-> TRUE, confidence |-> "medium", errors |-> << >>]
    ELSE [is_catchall |-> FALSE, confidence |-> "high", errors |-> << >>]

\* check_catchall_for_domains(email_domain_map, ...): the domains it runs
\* the detection for, once each: the unique domains of the addresses
CatchallDomains(map) ==
    {extract_domain(e) : e \in DOMAIN map} \ {<< >>}

\* lines 346-377 for one result
MergeOne(result, smtp, catchalls) ==
    LET has_smtp == result.email \in DOMAIN smtp
        smtp_data == smtp[result.email]
        domain == extract_domain(result.email)
        has_ca == domain /= << >> /\ domain \in DOMAIN catchalls
        ca == catchalls[domain]
    IN [ result EXCEPT
           !.smtp = IF has_smtp
                    THEN [present |-> TRUE, valid |-> smtp_data.valid,
                          mailbox_exists |-> smtp_data.mailbox_exists,
                          skipped |-> smtp_data.skipped]
                    ELSE @,
           !.valid = IF has_smtp /\ ~smtp_data.skipped
                     THEN @ /\ smtp_data.valid ELSE @,
           !.catchall = IF has_ca
                        THEN [present |-> TRUE, is_catchall |-> ca.is_catchall,
                              confidence |-> ca.confidence]
                        ELSE @,
           !.warnings = IF has_ca /\ ca.is_catchall /\ ca.confidence = "high"
                        THEN Append(@, "Domain is catch-all") ELSE @ ]

Merge(results, smtp, catchalls) ==
    [i \in 1 .. Len(results) |-> MergeOne(results[i], smtp, catchalls)]

NoException == [raised |-> FALSE, msg |-> None, at |-> "none"]

NoPool ==
    [ max_workers |-> 0, nthreads |-> 0, idle_semaphore |-> 0, fut |-> << >>,
      results |-> EmptyMap, collected |-> {}, completed |-> 0 ]

\* the run variables where no run takes place
RunIdle ==
    /\ emails = << >>
    /\ effective_include_smtp = FALSE
    /\ rpc = "none"
    /\ validation_results = << >>
    /\ domain_cache = EmptyMap
    /\ email_domain_map = EmptyMap
    /\ pool = NoPool
    /\ smtp_results = EmptyMap
    /\ catchall_results = EmptyMap
    /\ catchall_checks = EmptyMap
    /\ exc = NoException

NoJobs == [j \in {} |-> None]

Init ==
    /\ jobs = NoJobs
    /\ disk = NoJobs
    /\ lock = FALSE
    /\ call = [t \in Threads |-> IdleCall]
    /\ serial = NoJobs
    /\ overlapped = FALSE
    /\ probe = NoProbe
    /\ detect = NoDetect
    /\ dcall = NoDcall
    /\ eta = NoEta
    /\ units = NoUnits
    /\ tracker = NoTracker
    /\ RunIdle

Next ==
    \E t \in Threads :
        \/ CreateJob(t)
        \/ CallUpdateProgress(t)
        \/ CallCompleteJob(t)
        \/ Acquire(t)
        \/ WriteStep(t)
        \/ SaveAndRelease(t)

Spec == Init /\ [][Next]_vars

(***************************************************************************)
(* Specification of single probes: validate_smtp_single applied to every   *)
(* address, domain record and session of the sets above                    *)
(***************************************************************************)
TrackerIdle ==
    /\ jobs = NoJobs
    /\ disk = NoJobs
    /\ lock = FALSE
    /\ call = [t \in Threads |-> IdleCall]
    /\ serial = NoJobs
    /\ overlapped = FALSE

InitProbe ==
    /\ TrackerIdle
    /\ RunIdle
    /\ detect = NoDetect
    /\ dcall = NoDcall
    /\ eta = NoEta
    /\ units = NoUnits
    /\ tracker = NoTracker
    /\ probe \in [ pc : {"called"}, email : ProbeEmails,
                    domain_check : ProbeDomainChecks, session : Sessions ]

ProbeReturn ==
    /\ probe.pc = "called"
    /\ probe' = [ pc |-> "returned", email |-> probe.email,
                  domain_check |-> probe.domain_check, session |-> probe.session,
                  steps |-> SessionTrace(probe.email, probe.domain_check,
                                         probe.session),
                  result |-> validate_smtp_single(probe.email, probe.domain_check,
                                                  probe.session) ]
    /\ UNCHANGED <<trackerVars, runVars, detect, dcall, eta, units, tracker>>

NextProbe == ProbeReturn

SpecProbe == InitProbe /\ [][NextProbe]_vars

(***************************************************************************)
(* Specification of single catch-all detections: check_catchall_domain     *)
(* (modules/catchall_check.py) for every behaviour of the server in its    *)
(* num_tests trials                                                        *)
(***************************************************************************)
\* the except clause of the trial loop (lines 92-96) names Exception, so
\* it catches every kind of failure
CatchallCatchesSmtpOnly(kind) ==
    kind \in {"SMTPServerDisconnected", "SMTPResponseException"}
CatchallCatches(kind) == kind \in FailKinds

InitCatchall ==
    /\ TrackerIdle
    /\ RunIdle
    /\ probe = NoProbe
    /\ dcall = NoDcall
    /\ eta = NoEta
    /\ units = NoUnits
    /\ tracker = NoTracker
    /\ detect \in [ pc : {"loop"}, trials : [1 .. num_tests -> Sessions], i : {1},
                     accepts_count : {0}, rejects_count : {0}, errors : {<< >>} ]

\* one iteration of the trial loop (lines 69-96) against a server that
\* behaves as detect.trials[detect.i]
DetectTrial ==
    /\ detect.pc = "loop"
    /\ detect.i <= num_tests
    /\ LET s == detect.trials[detect.i]
           accepted == RcptAnswered(s) /\ s.code \in {250, 251}
           rejected == RcptAnswered(s) /\ s.code \notin {250, 251}
       IN detect' =
            IF SessionRaises(s) /\ ~CatchallCatches(s.fail_kind)
            THEN [pc |-> "raised", trials |-> detect.trials]
            ELSE [ detect EXCEPT
                     !.i = @ + 1,
                     !.accepts_count = IF accepted THEN @ + 1 ELSE @,
                     !.rejects_count = IF rejected THEN @ + 1 ELSE @,
                     !.errors = IF SessionRaises(s) THEN Append(@, "Test failed") ELSE @ ]
    /\ UNCHANGED <<trackerVars, runVars, probe, dcall, eta, units, tracker>>

\* lines 98-128: the verdict and the returned dict
DetectReturn ==
    /\ detect.pc = "loop"
    /\ detect.i > num_tests
    /\ LET v == check_catchall_domain(detect.accepts_count, detect.rejects_count) IN
       detect' = [ pc |-> "returned", trials |-> detect.trials,
                   result |-> [ is_catchall |-> v.is_catchall,
                                confidence |-> v.confidence,
                                accepts_count |-> detect.accepts_count,
                                rejects_count |-> detect.rejects_count,
                                errors |-> detect.errors \o v.errors ] ]
    /\ UNCHANGED <<trackerVars, runVars, probe, dcall, eta, units, tracker>>

NextCatchall == DetectTrial \/ DetectReturn

SpecCatchall == InitCatchall /\ [][NextCatchall]_vars

(***************************************************************************)
(* Specification of concurrent validate_domain calls                       *)
(* (modules/domain_check.py): threads of the process (background runs,     *)
(* request handlers) call it for addresses of the same domains; the cache  *)
(* is read and written without a lock                                      *)
(***************************************************************************)
DnsThreads == { "t1", "t2" }
DnsEmails == { << "a", At, "x.com" >>, << "info", At, "x.com" >>, << "a" >>,
               << "a", At, "timeout", ".com" >> }

\* what the resolver answers to the MX and the A query of one resolution
DnsAnswers ==
    { << "found", "found" >>, << "Timeout", "Timeout" >>, << "NXDOMAIN", "NXDOMAIN" >> }

IdleDcall == [pc |-> "idle"]

InitDns ==
    /\ TrackerIdle
    /\ RunIdle
    /\ probe = NoProbe
    /\ detect = NoDetect
    /\ eta = NoEta
    /\ units = NoUnits
    /\ tracker = NoTracker
    /\ dcall = [ pc |-> "active",
                 answers |-> DnsAnswers,
                 calls |-> [t \in DnsThreads |-> IdleDcall],
                 resolutions |-> EmptyMap,
                 first |-> EmptyMap ]

DnsUnchanged ==
    UNCHANGED <<trackerVars, probe, detect, eta, units, tracker, emails, effective_include_smtp, rpc,
                validation_results, email_domain_map, pool, smtp_results,
                catchall_results, catchall_checks, exc>>

\* the first result returned for each domain, after a call returned result
FirstAfter(first, domain, result) ==
    IF domain = << >> \/ domain \in DOMAIN first THEN first
    ELSE Put(first, domain, result)

\* a thread calls validate_domain(email); late: a call for the same domain
\* has returned before
D_Call(t) ==
    /\ dcall.calls[t].pc \in {"idle", "done"}
    /\ \E email \in DnsEmails :
          dcall' = [dcall EXCEPT !.calls[t] =
                      [ pc |-> "called", email |-> email,
                        late |-> extract_domain(email) \in DOMAIN dcall.first,
                        lookups |-> 0, mx |-> None, a |-> None, queried |-> << >> ]]
    /\ UNCHANGED domain_cache
    /\ DnsUnchanged

\* lines 19-34: no domain, or the cached record, is returned at once;
\* a domain that is not cached goes on to the resolver
D_CacheLookup(t) ==
    /\ dcall.calls[t].pc = "called"
    /\ LET c == dcall.calls[t]
           domain == extract_domain(c.email)
       IN IF domain = << >>
          THEN dcall' = [dcall EXCEPT !.calls[t] =
                           [c EXCEPT !.pc = "done"] @@ [result |-> NoDomainRecord]]
          ELSE IF domain \in DOMAIN domain_cache
          THEN dcall' = [dcall EXCEPT
                           !.calls[t] = [c EXCEPT !.pc = "done"]
                                           @@ [result |-> domain_cache[domain]],
                           !.first = FirstAfter(@, domain, domain_cache[domain])]
          ELSE dcall' = [dcall EXCEPT !.calls[t].pc = "resolving"]
    /\ UNCHANGED domain_cache
    /\ DnsUnchanged

\* lines 36-92: the MX lookup and, without MX records, the A lookup
D_Resolve(t) ==
    /\ dcall.calls[t].pc = "resolving"
    /\ LET c == dcall.calls[t]
           domain == extract_domain(c.email)
       IN \E o \in dcall.answers :
            dcall' = [dcall EXCEPT
                        !.calls[t] = [c EXCEPT !.pc = "resolved", !.lookups = @ + 1,
                                               !.mx = o[1], !.a = o[2],
                                               !.queried = QueriesMade(o[1])]
                                        @@ [result |-> ResolveDomain(domain, o[1], o[2])],
                        !.resolutions =
                            Put(@, domain, IF domain \in DOMAIN @ THEN @[domain] + 1 ELSE 1)]
    /\ UNCHANGED domain_cache
    /\ DnsUnchanged

\* lines 94-95: the record is stored in the cache and returned
D_Store(t) ==
    /\ dcall.calls[t].pc = "resolved"
    /\ LET c == dcall.calls[t]
           domain == extract_domain(c.email)
       IN /\ domain_cache' = Put(domain_cache, domain, c.result)
          /\ dcall' = [dcall EXCEPT
                         !.calls[t].pc = "done",
                         !.first = FirstAfter(@, domain, c.result)]
    /\ DnsUnchanged

NextDns ==
    \E t \in DnsThreads :
        \/ D_Call(t)
        \/ D_CacheLookup(t)
        \/ D_Resolve(t)
        \/ D_Store(t)

SpecDns == InitDns /\ [][NextDns]_vars

(***************************************************************************)
(* validate_domain against a resolver that gives one pair of answers, for  *)
(* every pair of outcomes of the MX and the A query: SpecResolve           *)
(***************************************************************************)
InitResolve ==
    /\ TrackerIdle
    /\ RunIdle
    /\ probe = NoProbe
    /\ detect = NoDetect
    /\ eta = NoEta
    /\ units = NoUnits
    /\ tracker = NoTracker
    /\ \E o \in DnsOutcomes \X DnsOutcomes :
          dcall = [ pc |-> "active",
                    answers |-> {o},
                    calls |-> [t \in DnsThreads |-> IdleDcall],
                    resolutions |-> EmptyMap,
                    first |-> EmptyMap ]

SpecResolve == InitResolve /\ [][NextDns]_vars

(***************************************************************************)
(* Specification of one background run: run_smtp_validation_background     *)
(* (app.py) on a job the upload handler created, with the worker threads   *)
(* of validate_smtp_batch_with_progress.  The background thread is the     *)
(* only caller of the tracker here, so each of its calls is one step.      *)
(***************************************************************************)
\* the addresses of a batch: two on one domain, one on a disposable domain
\* that normalize_email changes, one without a domain
RunEmails ==
    { << "a", At, "x.com" >>, << "info", At, "x.com" >>,
      << " ", "a", At, "mailinator.com" >>, << "a" >> }

MaxEmails == 2

EmailLists == UNION { [1 .. n -> RunEmails] : n \in 0 .. MaxEmails }

\* the environment variable SMTP_MAX_WORKERS
WorkerEnvs ==
    { [set |-> FALSE, is_int |-> FALSE, value |-> 0],
      [set |-> TRUE, is_int |-> FALSE, value |-> 0] }
    \cup { [set |-> TRUE, is_int |-> TRUE, value |-> v] : v \in 0 .. 1 }

\* what the DNS answers for a domain that is not cached, and what the mail
\* server of a probed address does
RunDns == { << "found", "found" >>, << "NXDOMAIN", "NXDOMAIN" >> }
RunSessions ==
    { [fail_step |-> "none", fail_kind |-> "none", code |-> 250],
      [fail_step |-> "none", fail_kind |-> "none", code |-> 550],
      [fail_step |-> "connect", fail_kind |-> "socket.timeout", code |-> 250] }

\* accepted and rejected trials of one catch-all detection: the server
\* accepts every random address, or rejects every one
CatchallTrials == { << num_tests, 0 >>, << 0, num_tests >> }

\* str(e) of an exception raised inside the try block: some text, or the
\* empty string of an exception constructed without arguments
ExceptionMessages == { "error message", "" }

ZeroArgs ==
    [ validated_count |-> 0, valid_count |-> 0, invalid_count |-> 0,
      disposable_count |-> 0, role_based_count |-> 0, personal_count |-> 0 ]

\* upload handler (app.py lines 1587-1603): create_job, then
\* update_progress(job_id, 0, 0, 0, 0, 0, 0), before the thread starts
JobAtThreadStart(total_emails) ==
    update_progress([j \in {RunJob} |-> NewJob(total_emails)], RunJob, ZeroArgs)

InitRun ==
    /\ probe = NoProbe
    /\ detect = NoDetect
    /\ dcall = NoDcall
    /\ eta = NoEta
    /\ units = NoUnits
    /\ tracker = NoTracker
    /\ emails \in EmailLists
    /\ effective_include_smtp \in
          {include_smtp /\ SMTP_ENABLED : include_smtp \in BOOLEAN, SMTP_ENABLED \in BOOLEAN}
    /\ jobs = JobAtThreadStart(Len(emails))
    /\ disk = jobs
    /\ serial = jobs
    /\ lock = FALSE
    /\ call = [t \in Threads |-> IdleCall]
    /\ overlapped = FALSE
    /\ rpc = "start"
    /\ validation_results = << >>
    /\ domain_cache = EmptyMap
    /\ email_domain_map = EmptyMap
    /\ pool = NoPool
    /\ smtp_results = EmptyMap
    /\ catchall_results = EmptyMap
    /\ catchall_checks = EmptyMap
    /\ exc = NoException

total_emails == Len(emails)

\* the tracker after a call of the background thread that leaves the jobs js
TrackerAfter(js) ==
    /\ jobs' = js
    /\ disk' = js
    /\ serial' = js
    /\ UNCHANGED <<lock, call, overlapped>>

\* job_tracker.update_progress(job_id, ...) with argc positional arguments:
\* more than the method takes raises TypeError before the method runs
BgUpdateProgress(argc, a, next_pc) ==
    IF argc > UpdateProgressParams
    THEN /\ exc' = [raised |-> TRUE,
                    msg |-> "update_progress() takes from 3 to 8 positional arguments but 9 were given",
                    at |-> "update_progress"]
         /\ rpc' = "except"
         /\ UNCHANGED trackerVars
    ELSE /\ TrackerAfter(update_progress(jobs, RunJob, a))
         /\ exc' = exc
         /\ rpc' = next_pc

\* lines 92-97 and 99-127
R_Start ==
    /\ rpc = "start"
    /\ rpc' = IF total_emails = 0 THEN "empty" ELSE "precheck"
    /\ UNCHANGED <<trackerVars, probeVars, emails, effective_include_smtp,
                   validation_results, domain_cache, email_domain_map, pool,
                   smtp_results, catchall_results, catchall_checks, exc>>

\* one iteration of the pre-check loop (lines 129-188), or an exception
\* raised in it
R_Precheck ==
    /\ rpc = "precheck"
    /\ LET i == Len(validation_results) + 1 IN
       \/ /\ \E o \in RunDns, elapsed \in BOOLEAN :
                \E result \in {validate_email_complete(domain_cache, emails[i], o[1], o[2])} :
                \E results \in {Append(validation_results, result)} :
                \E args \in {StatsArgs(results, i)} :
                   /\ validation_results' = results
                   /\ domain_cache' = CacheAfter(domain_cache, result.email, o[1], o[2])
                   /\ TrackerAfter(IF ShouldUpdate(i, total_emails, elapsed)
                                   THEN update_progress(jobs, RunJob, args)
                                   ELSE jobs)
          /\ rpc' = IF i = total_emails THEN "prechecked" ELSE "precheck"
          /\ exc' = exc
       \/ /\ \E msg \in ExceptionMessages :
                exc' = [raised |-> TRUE, msg |-> msg, at |-> "precheck"]
          /\ rpc' = "except"
          /\ UNCHANGED <<validation_results, domain_cache, trackerVars>>
    /\ UNCHANGED <<probeVars, emails, effective_include_smtp, email_domain_map,
                   pool, smtp_results, catchall_results, catchall_checks>>

\* lines 196-224: without SMTP, the final counters are pushed
R_PrecheckOnlyFinish ==
    /\ rpc = "prechecked"
    /\ ~effective_include_smtp
    /\ BgUpdateProgress(FinalUpdateArgc, StatsArgs(validation_results, total_emails),
                        "finish")
    /\ UNCHANGED <<probeVars, emails,
                   effective_include_smtp, validation_results, domain_cache,
                   email_domain_map, pool, smtp_results, catchall_results,
                   catchall_checks>>

\* lines 250-262 and 303-313, and the executor of
\* validate_smtp_batch_with_progress is created
R_StartSmtpPhase ==
    /\ rpc = "prechecked"
    /\ effective_include_smtp
    /\ email_domain_map' = EmailDomainMap(validation_results)
    /\ \E env \in WorkerEnvs :
          pool' = [NoPool EXCEPT !.max_workers = MaxSmtpWorkers(env)]
    /\ rpc' = "submit"
    /\ UNCHANGED <<trackerVars, probeVars, emails, effective_include_smtp,
                   validation_results, domain_cache, smtp_results,
                   catchall_results, catchall_checks, exc>>

\* the result of a future that has none yet
NoResult == [none |-> TRUE]

Pending(k) == pool.fut[k].state = "pending"
Running(k) == pool.fut[k].state = "running"
InFlight == Cardinality({k \in 1 .. Len(pool.fut) : Running(k)})

\* executor.submit for the next address (smtp_check_async.py lines 247-258):
\* the task is queued; an idle worker is claimed, or a thread is started
R_Submit ==
    /\ rpc = "submit"
    /\ LET k == Len(pool.fut) + 1
           email == emails[k]
           task == [ state |-> "pending", email |-> email,
                     has_domain_info |-> email \in DOMAIN email_domain_map,
                     raised |-> FALSE, result |-> NoResult,
                     domain_check |-> NoResult, steps |-> << >> ]
       IN /\ pool' = [ pool EXCEPT
                         !.fut = Append(@, task),
                         !.idle_semaphore = IF @ > 0 THEN @ - 1 ELSE @,
                         !.nthreads = IF pool.idle_semaphore = 0
                                         /\ CanSpawn(pool.nthreads, pool.max_workers)
                                      THEN @ + 1 ELSE @ ]
          /\ rpc' = IF k = total_emails THEN "collect" ELSE "submit"
    /\ UNCHANGED <<trackerVars, probeVars, emails, effective_include_smtp,
                   validation_results, domain_cache, email_domain_map,
                   smtp_results, catchall_results, catchall_checks, exc>>

\* a worker thread without a task takes the oldest queued one
W_Start(k) ==
    /\ k \in 1 .. Len(pool.fut)
    /\ Pending(k)
    /\ \A j \in 1 .. (k - 1) : ~Pending(j)
    /\ InFlight < pool.nthreads
    /\ pool' = [pool EXCEPT !.fut[k].state = "running"]
    /\ UNCHANGED <<trackerVars, probeVars, emails, effective_include_smtp, rpc,
                   validation_results, domain_cache, email_domain_map,
                   smtp_results, catchall_results, catchall_checks, exc>>

\* the task returns what validate_smtp_single returns, or raises; the
\* worker then releases the idle semaphore
W_Finish(k) ==
    /\ k \in 1 .. Len(pool.fut)
    /\ Running(k)
    /\ LET email == pool.fut[k].email IN
       \/ \E s \in RunSessions, o \in RunDns :
             LET domain_check ==
                     IF pool.fut[k].has_domain_info THEN email_domain_map[email]
                     ELSE validate_domain(domain_cache, email, o[1], o[2])
             IN /\ pool' = [ pool EXCEPT
                               !.fut[k].state = "done",
                               !.fut[k].result = validate_smtp_single(email, domain_check, s),
                               !.fut[k].domain_check = domain_check,
                               !.fut[k].steps = SessionTrace(email, domain_check, s),
                               !.idle_semaphore = @ + 1 ]
                /\ domain_cache' = IF pool.fut[k].has_domain_info THEN domain_cache
                                   ELSE CacheAfter(domain_cache, email, o[1], o[2])
       \/ /\ pool' = [ pool EXCEPT
                         !.fut[k].state = "done",
                         !.fut[k].raised = TRUE,
                         !.idle_semaphore = @ + 1 ]
          /\ domain_cache' = domain_cache
    /\ UNCHANGED <<trackerVars, probeVars, emails, effective_include_smtp, rpc,
                   validation_results, email_domain_map, smtp_results,
                   catchall_results, catchall_checks, exc>>

\* the result stored for a finished future (lines 262-275)
CollectedResultDroppingRaised(results, f) ==
    IF f.raised THEN results ELSE Put(results, f.email, f.result)
CollectedResult(results, f) ==
    Put(results, f.email, IF f.raised THEN ThreadErrorResult ELSE f.result)

\* one iteration of the as_completed loop (lines 260-279), with the
\* progress_callback of app.py lines 267-287
R_Collect(k) ==
    /\ rpc = "collect"
    /\ k \in 1 .. Len(pool.fut)
    /\ pool.fut[k].state = "done"
    /\ k \notin pool.collected
    /\ pool' = [ pool EXCEPT
                   !.results = CollectedResult(@, pool.fut[k]),
                   !.collected = @ \cup {k},
                   !.completed = @ + 1 ]
    /\ BgUpdateProgress(CallbackUpdateArgc,
                        CallbackArgs(total_emails, pool.completed + 1, Len(emails)),
                        "collect")
    /\ UNCHANGED <<probeVars, emails,
                   effective_include_smtp, validation_results, domain_cache,
                   email_domain_map, smtp_results, catchall_results, catchall_checks>>

\* every future was collected: validate_smtp_batch_with_progress returns
R_BatchReturn ==
    /\ rpc = "collect"
    /\ pool.collected = 1 .. Len(pool.fut)
    /\ smtp_results' = pool.results
    /\ rpc' = "catchall"
    /\ UNCHANGED <<trackerVars, probeVars, emails, effective_include_smtp,
                   validation_results, domain_cache, email_domain_map, pool,
                   catchall_results, catchall_checks, exc>>

\* check_catchall_for_domains: the detection for one more domain, with the
\* outcomes of its trials
R_CatchallCheck(d) ==
    /\ rpc = "catchall"
    /\ d \in CatchallDomains(email_domain_map) \ DOMAIN catchall_results
    /\ \E t \in CatchallTrials :
          catchall_results' = Put(catchall_results, d,
                                  check_catchall_domain(t[1], t[2]))
    /\ catchall_checks' = Put(catchall_checks, d,
                              IF d \in DOMAIN catchall_checks
                              THEN catchall_checks[d] + 1 ELSE 1)
    /\ UNCHANGED <<trackerVars, probeVars, emails, effective_include_smtp, rpc,
                   validation_results, domain_cache, email_domain_map, pool,
                   smtp_results, exc>>

\* check_catchall_for_domains has returned; lines 346-411: the merge and
\* the final counters
R_MergeAndFinalUpdate ==
    /\ rpc = "catchall"
    /\ CatchallDomains(email_domain_map) \subseteq DOMAIN catchall_results
    /\ LET merged == Merge(validation_results, smtp_results, catchall_results) IN
       /\ validation_results' = merged
       /\ BgUpdateProgress(FinalUpdateArgc, StatsArgs(merged, total_emails), "finish")
    /\ UNCHANGED <<probeVars, emails,
                   effective_include_smtp, domain_cache, email_domain_map, pool,
                   smtp_results, catchall_results, catchall_checks>>

R_ExceptWithoutCompleting ==
    /\ rpc = "except"
    /\ rpc' = "done"
    /\ UNCHANGED <<trackerVars, probeVars, emails,
                   effective_include_smtp, validation_results, domain_cache,
                   email_domain_map, pool, smtp_results, catchall_results,
                   catchall_checks, exc>>
\* the except clause (lines 435-440): complete_job(job_id, success=False,
\* error=str(smtp_error))
R_Except ==
    /\ rpc = "except"
    /\ TrackerAfter(complete_job(jobs, RunJob, [success |-> FALSE, error |-> exc.msg]))
    /\ rpc' = "done"
    /\ UNCHANGED <<probeVars, emails,
                   effective_include_smtp, validation_results, domain_cache,
                   email_domain_map, pool, smtp_results, catchall_results,
                   catchall_checks, exc>>

\* complete_job(job_id, success=True): line 96 for an empty batch, lines
\* 241 and 426 after the final counters
R_Finish ==
    /\ rpc \in {"empty", "finish"}
    /\ TrackerAfter(complete_job(jobs, RunJob, [success |-> TRUE, error |-> None]))
    /\ rpc' = "done"
    /\ UNCHANGED <<probeVars, emails,
                   effective_include_smtp, validation_results, domain_cache,
                   email_domain_map, pool, smtp_results, catchall_results,
                   catchall_checks, exc>>

NextRun ==
    \/ R_Start
    \/ R_Precheck
    \/ R_PrecheckOnlyFinish
    \/ R_StartSmtpPhase
    \/ R_Submit
    \/ \E k \in 1 .. Len(pool.fut) : W_Start(k)
    \/ \E k \in 1 .. Len(pool.fut) : W_Finish(k)
    \/ \E k \in 1 .. Len(pool.fut) : R_Collect(k)
    \/ R_BatchReturn
    \/ \E d \in CatchallDomains(email_domain_map) : R_CatchallCheck(d)
    \/ R_MergeAndFinalUpdate
    \/ R_Except
    \/ R_Finish

SpecRun == InitRun /\ [][NextRun]_vars

\* the background thread and the pool's worker threads are scheduled as
\* long as one of them can take a step; a probe ends within its timeout
\* (W_Finish is enabled for every running task)
\* longest batch of the runs checked for termination
MaxFairEmails == 1

InitRunFair == InitRun /\ Len(emails) <= MaxFairEmails

SpecRunFair == InitRunFair /\ [][NextRun]_vars /\ WF_vars(NextRun)

(***************************************************************************)
(* A job polled for its remaining time (app.py get_job_status, line 1235)  *)
(* while the tracker is updated and the clock advances: SpecEta            *)
(***************************************************************************)
MaxEtaEmails == 3
MaxHalfSeconds == 4

\* job ids polled: the job created and one the tracker does not hold
EtaJobIds == {RunJob, "j2"}

InitEta ==
    /\ RunIdle
    /\ probe = NoProbe
    /\ detect = NoDetect
    /\ dcall = NoDcall
    /\ units = NoUnits
    /\ tracker = NoTracker
    /\ \E total \in 0 .. MaxEtaEmails :
          jobs = [j \in {RunJob} |-> NewJob(total)]
    /\ disk = jobs
    /\ serial = jobs
    /\ lock = FALSE
    /\ call = [t \in Threads |-> IdleCall]
    /\ overlapped = FALSE
    /\ eta = [ pc |-> "created", elapsed |-> 0, job_id |-> RunJob, found |-> FALSE,
               job |-> NewJob(0), at |-> 0, result |-> NoEstimate ]

EtaUnchanged == UNCHANGED <<probe, detect, dcall, units, tracker, runVars>>

\* update_progress(job_id, validated_count), as progress_callback calls it
E_UpdateProgress ==
    /\ eta.pc /= "idle"
    /\ \E n \in 0 .. MaxEtaEmails :
          TrackerAfter(update_progress(jobs, RunJob,
                                       [ validated_count  |-> n,
                                         valid_count      |-> NoCount,
                                         invalid_count    |-> NoCount,
                                         disposable_count |-> NoCount,
                                         role_based_count |-> NoCount,
                                         personal_count   |-> NoCount ]))
    /\ UNCHANGED eta
    /\ EtaUnchanged

E_CompleteJob ==
    /\ eta.pc /= "idle"
    /\ \E a \in CompleteArgs : TrackerAfter(complete_job(jobs, RunJob, a))
    /\ UNCHANGED eta
    /\ EtaUnchanged

\* half a second passes
E_Tick ==
    /\ eta.pc /= "idle"
    /\ eta.elapsed \div (MicrosPerSecond \div 2) < MaxHalfSeconds
    /\ eta' = [eta EXCEPT !.elapsed = @ + MicrosPerSecond \div 2]
    /\ EtaUnchanged
    /\ UNCHANGED trackerVars

\* estimate_time_remaining(job_id) is called; found and job are the job as
\* get_job returned it, at the elapsed time of the call
E_Estimate ==
    /\ eta.pc /= "idle"
    /\ \E job_id \in EtaJobIds :
          eta' = [ eta EXCEPT
                     !.pc = "polled",
                     !.job_id = job_id,
                     !.found = job_id \in DOMAIN jobs,
                     !.job = IF job_id \in DOMAIN jobs THEN jobs[job_id] ELSE NewJob(0),
                     !.at = eta.elapsed,
                     !.result = estimate_time_remaining(jobs, job_id, eta.elapsed) ]
    /\ EtaUnchanged
    /\ UNCHANGED trackerVars

NextEta ==
    \/ E_UpdateProgress
    \/ E_CompleteJob
    \/ E_Tick
    \/ E_Estimate

SpecEta == InitEta /\ [][NextEta]_vars

(***************************************************************************)
(* GET /api/jobs/<job_id> (app.py lines 1223-1237) polled while the        *)
(* tracker is updated and the clock advances: SpecPoll                     *)
(***************************************************************************)
\* the record get_job returned after get_job_status stored its two
\* calculated fields in it: job["progress_percent"] = ...,
\* job["time_remaining_seconds"] = ...
WithCalculatedFields(js, job_id, elapsed) ==
    Put(Put(js[job_id], "progress_percent", get_progress_percent(js, job_id)),
        "time_remaining_seconds", estimate_time_remaining(js, job_id, elapsed))

\* get_job_status(job_id): 404 when get_job returns None; otherwise the two
\* stores go to the dict get_job returned, which is self.jobs[job_id] itself
\* (get_job, job_tracker.py lines 91-93, returns the reference), and the
\* response is built from it. Nothing is saved by the request
P_GetJobStatus ==
    /\ eta.pc /= "idle"
    /\ \E job_id \in EtaJobIds :
          jobs' = IF job_id \in DOMAIN jobs
                  THEN [jobs EXCEPT ![job_id] = WithCalculatedFields(jobs, job_id, eta.elapsed)]
                  ELSE jobs
    /\ UNCHANGED <<disk, lock, call, serial, overlapped, eta>>
    /\ EtaUnchanged

NextPoll ==
    \/ E_UpdateProgress
    \/ E_CompleteJob
    \/ E_Tick
    \/ P_GetJobStatus

SpecPoll == InitEta /\ [][NextPoll]_vars

(***************************************************************************)
(* The progress updates of one run, unit by unit: the pre-check loop       *)
(* (app.py lines 126-188) and the as_completed loop with progress_callback *)
(* (smtp_check_async.py lines 260-279, app.py lines 267-287), reduced to   *)
(* their counters so that batches above the 200 threshold fit: SpecUnits   *)
(***************************************************************************)
MaxBatch == 202

\* len(emails_to_validate): small batches and batches around the threshold
\* of UPDATE_BATCH_SIZE
BatchSizes == {n \in 1 .. MaxBatch : n <= MaxEmails \/ n >= MaxBatch - 2}

\* no unit completed yet
NoUnit == [phase |-> "none", completed |-> 0, elapsed |-> FALSE, pushed |-> FALSE]

InitUnits ==
    /\ TrackerIdle
    /\ RunIdle
    /\ probe = NoProbe
    /\ detect = NoDetect
    /\ dcall = NoDcall
    /\ eta = NoEta
    /\ tracker = NoTracker
    /\ units \in [ pc : {"precheck"}, total_emails : BatchSizes,
                    effective_include_smtp : BOOLEAN, completed : {0}, last : {NoUnit} ]

UnitsUnchanged == UNCHANGED <<trackerVars, probe, detect, dcall, eta, tracker, runVars>>

\* one iteration of the pre-check loop; elapsed: now - last_update_time >= 1.0
U_PrecheckUnit ==
    /\ units.pc = "precheck"
    /\ units.completed < units.total_emails
    /\ \E elapsed \in BOOLEAN :
          LET completed_precheck == units.completed + 1 IN
          units' = [ units EXCEPT
                       !.completed = completed_precheck,
                       !.last = [ phase |-> "precheck",
                                  completed |-> completed_precheck,
                                  elapsed |-> elapsed,
                                  pushed |-> ShouldUpdate(completed_precheck,
                                                          units.total_emails, elapsed) ] ]
    /\ UnitsUnchanged

\* the pre-check loop is over: the run finishes (lines 196-244) or the SMTP
\* batch is started (lines 250-331)
U_PrecheckDone ==
    /\ units.pc = "precheck"
    /\ units.completed = units.total_emails
    /\ units' = [ units EXCEPT
                    !.pc = IF units.effective_include_smtp THEN "smtp" ELSE "done",
                    !.completed = 0 ]
    /\ UnitsUnchanged

\* one iteration of the as_completed loop: progress_callback(completed,
\* total) is called for every future and calls update_progress each time;
\* elapsed: a second or more has passed since the update before
U_ProbeUnit ==
    /\ units.pc = "smtp"
    /\ units.completed < units.total_emails
    /\ \E elapsed \in BOOLEAN :
          units' = [ units EXCEPT
                       !.completed = @ + 1,
                       !.last = [ phase |-> "smtp",
                                  completed |-> units.completed + 1,
                                  elapsed |-> elapsed,
                                  pushed |-> TRUE ] ]
    /\ UnitsUnchanged

\* validate_smtp_batch_with_progress returns
U_ProbeDone ==
    /\ units.pc = "smtp"
    /\ units.completed = units.total_emails
    /\ units' = [units EXCEPT !.pc = "done"]
    /\ UnitsUnchanged

NextUnits ==
    \/ U_PrecheckUnit
    \/ U_PrecheckDone
    \/ U_ProbeUnit
    \/ U_ProbeDone

SpecUnits == InitUnits /\ [][NextUnits]_vars

(***************************************************************************)
(* Two jobs in one tracker, e.g. two uploads whose background threads run  *)
(* at the same time: SpecJobs.  The calls run statement by statement as    *)
(* in Spec (Acquire, WriteStep, SaveAndRelease).                           *)
(***************************************************************************)
\* the ids create_job hands out here; UnknownJobId is never created
TwoJobIds == {"j1", "j2"}

\* what the callers of this specification pass: progress_callback's
\* update, the pre-check loop's update, and both ways of completing
TwoJobsUpdateArgs == {a \in UpdateArgs : a.validated_count = MaxCount}
TwoJobsCompleteArgs == {a \in CompleteArgs : a.error /= ""}

\* a thread calls update_progress or complete_job with any id, created
\* or not
J_Call(t) ==
    /\ call[t].op = "idle"
    /\ \E job_id \in TwoJobIds \cup {UnknownJobId} :
          \/ \E a \in TwoJobsUpdateArgs :
                call' = [call EXCEPT ![t] =
                            [op |-> "update_progress", job_id |-> job_id, a |-> a, pc |-> 0]]
          \/ \E a \in TwoJobsCompleteArgs :
                call' = [call EXCEPT ![t] =
                            [op |-> "complete_job", job_id |-> job_id, a |-> a, pc |-> 0]]
    /\ UNCHANGED <<jobs, disk, lock, serial, overlapped, probeVars, runVars>>

\* create_job(total_emails) for a second or a first job
J_CreateJob(t) ==
    /\ call[t].op = "idle"
    /\ LockAvailable
    /\ \E job_id \in TwoJobIds \ DOMAIN jobs, total \in {MaxCount} :
          /\ jobs' = [j \in DOMAIN jobs \cup {job_id} |->
                         IF j = job_id THEN NewJob(total) ELSE jobs[j]]
          /\ serial' = [j \in DOMAIN serial \cup {job_id} |->
                         IF j = job_id THEN NewJob(total) ELSE serial[j]]
    /\ disk' = jobs'
    /\ UNCHANGED <<lock, call, overlapped, probeVars, runVars>>

NextJobs ==
    \E t \in Threads :
        \/ J_CreateJob(t)
        \/ J_Call(t)
        \/ Acquire(t)
        \/ WriteStep(t)
        \/ SaveAndRelease(t)

SpecJobs == Init /\ [][NextJobs]_vars

(***************************************************************************)
(* EmailTracker (modules/email_tracker.py): SpecTracker.  A tracked record *)
(* keeps the fields valid and status; the time stamps, the counters        *)
(* send_count and validation_count and the type fields, which no call of   *)
(* this model reads, are left out.  A Python bool or None stored in a      *)
(* record is the string "True", "False" or "None".                         *)
(***************************************************************************)
\* email.lower().strip()
LowerStrip(email) == RStrip(LStrip([i \in 1 .. Len(email) |-> LowerTok(email[i])]))

\* email.lower()
Lower(email) == [i \in 1 .. Len(email) |-> LowerTok(email[i])]

PyBool(b) == IF b THEN "True" ELSE "False"

\* a list of strings as the sequence of its elements
RECURSIVE KeepKeys(_, _, _)
KeepKeys(addresses, db, found) ==
    IF addresses = << >> THEN << >>
    ELSE LET email_lower == Head(addresses)
             rest == KeepKeys(Tail(addresses), db, found)
         IN IF (email_lower \in DOMAIN db) = found THEN << email_lower >> \o rest ELSE rest

check_duplicatesOfRawAddress(db, addresses) ==
    LET new_emails == KeepKeys(addresses, db, FALSE)
        duplicate_emails == KeepKeys(addresses, db, TRUE)
    IN [ new_emails |-> new_emails,
         duplicate_emails |-> duplicate_emails,
         new_count |-> Len(new_emails),
         duplicate_count |-> Len(duplicate_emails),
         total_checked |-> Len(addresses) ]
\* check_duplicates(emails) on data["emails"] = db (lines 71-102); each
\* entry of duplicate_emails is given by its "email"
check_duplicates(db, addresses) ==
    LET keys == [i \in 1 .. Len(addresses) |-> LowerStrip(addresses[i])]
        new_emails == KeepKeys(keys, db, FALSE)
        duplicate_emails == KeepKeys(keys, db, TRUE)
    IN [ new_emails |-> new_emails,
         duplicate_emails |-> duplicate_emails,
         new_count |-> Len(new_emails),
         duplicate_count |-> Len(duplicate_emails),
         total_checked |-> Len(addresses) ]

\* results = None
NoValidationResults == << [none |-> TRUE] >>

\* lines 121-149: validation_lookup, keyed by result['email'].lower(); a
\* later result for the same key replaces an earlier one
ValidationLookup(results) ==
    IF results = NoValidationResults THEN EmptyMap
    ELSE LET idx == 1 .. Len(results)
             keys == {Lower(results[i].email) : i \in idx}
         IN [k \in keys |->
                LET i == CHOOSE i \in idx :
                            /\ Lower(results[i].email) = k
                            /\ \A j \in idx : Lower(results[j].email) = k => j <= i
                IN [valid |-> results[i].valid]]

\* lines 172-177 and 199-204: the status of a record with validation data
\* (is_disposable is not part of the results of this model: never set)
StatusOf(valid) == IF valid THEN "valid" ELSE "invalid"

\* lines 151-216 for one address
TrackOne(db, email, lookup) ==
    LET email_lower == LowerStrip(email)
        has_data == email_lower \in DOMAIN lookup
    IN IF email_lower \in DOMAIN db
       THEN IF has_data
            THEN Put(db, email_lower,
                     [db[email_lower] EXCEPT
                        !.valid = PyBool(lookup[email_lower].valid),
                        !.status = StatusOf(lookup[email_lower].valid)])
            ELSE db
       ELSE Put(db, email_lower,
                IF has_data
                THEN [ valid |-> PyBool(lookup[email_lower].valid),
                       status |-> StatusOf(lookup[email_lower].valid) ]
                ELSE [ valid |-> None, status |-> "unknown" ])

RECURSIVE TrackFrom(_, _, _)
TrackFrom(db, addresses, lookup) ==
    IF addresses = << >> THEN db
    ELSE TrackFrom(TrackOne(db, Head(addresses), lookup), Tail(addresses), lookup)

\* data["emails"] after track_emails(emails, validation_results)
track_emails(db, addresses, results) ==
    TrackFrom(db, addresses, ValidationLookup(results))

\* info.get(key) of a tracked record
RecordGet(info, key) == IF key \in DOMAIN info THEN info[key] ELSE None

\* export_emails(valid_only) (lines 263-280): the addresses of the sorted
\* list it returns
export_emails(db, valid_only) ==
    IF valid_only
    THEN {email \in DOMAIN db : RecordGet(db[email], "validation_status") = "True"}
    ELSE DOMAIN db

\* addresses given to the tracker: one in two spellings, and another
TrackerEmails ==
    { << "a", At, "x.com" >>, << " ", "A", At, "X.COM" >>, << "info", At, "x.com" >> }

TrackerLists == UNION { [1 .. n -> TrackerEmails] : n \in 1 .. MaxEmails }

\* the validation results passed for a list: None, or one result per
\* address with the normalized address (as validate_email_complete gives)
ResultsFor(addresses) ==
    {NoValidationResults} \cup
    { [i \in 1 .. Len(addresses) |-> [email |-> normalize_email(addresses[i]), valid |-> v[i]]] :
        v \in [1 .. Len(addresses) -> BOOLEAN] }

\* uploads tracked in one behaviour
MaxUploads == 2

NoTrackerCall == [op |-> "none"]

\* EmailTracker(db_file) without a database file: _create_empty_database
InitTracker ==
    /\ TrackerIdle
    /\ RunIdle
    /\ probe = NoProbe
    /\ detect = NoDetect
    /\ dcall = NoDcall
    /\ eta = NoEta
    /\ units = NoUnits
    /\ tracker = [ pc |-> "ready", emails |-> EmptyMap, total_uploads |-> 0,
                   tracked |-> {}, validated |-> EmptyMap, last |-> NoTrackerCall ]

TrackerUnchanged == UNCHANGED <<trackerVars, probe, detect, dcall, eta, units, runVars>>

\* validated: history, the outcome last passed for each key
ValidatedAfter(validated, addresses, results) ==
    LET lookup == ValidationLookup(results)
        keys == {LowerStrip(addresses[i]) : i \in 1 .. Len(addresses)} \cap DOMAIN lookup
    IN [k \in DOMAIN validated \cup keys |->
           IF k \in keys THEN lookup[k].valid ELSE validated[k]]

T_TrackEmails ==
    /\ tracker.pc = "ready"
    /\ tracker.total_uploads < MaxUploads
    /\ \E list \in TrackerLists :
          \E results \in ResultsFor(list) :
             tracker' = [ tracker EXCEPT
                            !.emails = track_emails(@, list, results),
                            !.total_uploads = @ + 1,
                            !.tracked = @ \cup {LowerStrip(list[i]) : i \in 1 .. Len(list)},
                            !.validated = ValidatedAfter(@, list, results),
                            !.last = [op |-> "track_emails"] ]
    /\ TrackerUnchanged

T_CheckDuplicates ==
    /\ tracker.pc = "ready"
    /\ \E list \in TrackerLists :
          tracker' = [ tracker EXCEPT
                         !.last = [ op |-> "check_duplicates", emails |-> list,
                                    result |-> check_duplicates(tracker.emails, list) ] ]
    /\ TrackerUnchanged

T_ExportEmails ==
    /\ tracker.pc = "ready"
    /\ \E valid_only \in BOOLEAN :
          tracker' = [ tracker EXCEPT
                         !.last = [ op |-> "export_emails", valid_only |-> valid_only,
                                    result |-> export_emails(tracker.emails, valid_only) ] ]
    /\ TrackerUnchanged

NextTracker ==
    \/ T_TrackEmails
    \/ T_CheckDuplicates
    \/ T_ExportEmails

SpecTracker == InitTracker /\ [][NextTracker]_vars

(***************************************************************************)
(* Claims about the tracker (specification Spec)                           *)
(***************************************************************************)
\* C1: for any sequence of update_progress calls on a job, the stored
\* validated_count never decreases from one state to the next and never
\* exceeds total_emails, so get_progress_percent never exceeds 100.
C1_ValidatedMonotoneAndBounded ==
    [][\A j \in DOMAIN jobs :
          /\ jobs'[j].validated_count >= jobs[j].validated_count
          /\ jobs'[j].validated_count <= jobs'[j].total_emails
          /\ ~PercentExceeds100(get_progress_percent(jobs', j))]_vars

Terminal(status) == status \in {"completed", "failed"}

Counters(job) ==
    << job.validated_count, job.valid_count, job.invalid_count,
       job.disposable_count, job.role_based_count, job.personal_count >>

\* C2: the status of a job only moves pending -> running -> completed or
\* failed, and once it is completed or failed no later update_progress or
\* complete_job changes the status or any counter of the job.
C2_TerminalAbsorbing ==
    [][\A j \in DOMAIN jobs :
          /\ jobs'[j].status /= jobs[j].status =>
                \/ jobs[j].status = "pending"
                \/ jobs[j].status = "running" /\ Terminal(jobs'[j].status)
          /\ Terminal(jobs[j].status) =>
                /\ jobs'[j].status = jobs[j].status
                /\ Counters(jobs'[j]) = Counters(jobs[j])]_vars

\* C9: concurrent update_progress / complete_job calls are serialized:
\* whenever no call is inside the lock, the jobs are exactly as if the calls
\* made so far had run one after the other (in the order they got the lock),
\* never a mix of the writes of two calls.
C9_Serialized ==
    (\A t \in DOMAIN call : call[t].pc = 0) => jobs = serial

\* two calls overlapped (one was made while the other held the lock), both
\* have returned, and the job carries counters written by a call
C9_Witness ==
    /\ overlapped
    /\ \A t \in DOMAIN call : call[t].op = "idle"
    /\ \E j \in DOMAIN jobs : jobs[j].validated_count > 0 /\ jobs[j].valid_count > 0

(***************************************************************************)
(* Claims about validate_smtp_single (specification SpecProbe)             *)
(***************************************************************************)
ProbedValidDomain ==
    /\ probe.pc = "returned"
    /\ extract_domain(probe.email) /= << >>
    /\ probe.domain_check.valid

FailedOpen(r) ==
    /\ r.smtp_status = "unverifiable"
    /\ r.confidence = "low"
    /\ r.mailbox_exists

\* C10 as claimed: for a valid domain record, a connection or transport
\* failure at any step of the session (the closing QUIT included) yields
\* smtp_status unverifiable, confidence low and mailbox_exists true.
C10_AnyFailureFailsOpen ==
    (ProbedValidDomain /\ probe.session.fail_step /= "none")
        => FailedOpen(probe.result)

\* C10 as amended: for a valid domain record, a failure of the connection,
\* HELO, MAIL FROM or RCPT TO step, or a reply other than 221 to the closing
\* QUIT, yields unverifiable / low / mailbox_exists true; a timeout or a
\* dropped connection at the closing QUIT leaves the verdict of the RCPT
\* reply in place.
C10_FailOpen ==
    ProbedValidDomain =>
        /\ ( \/ probe.session.fail_step \in {"connect", "helo", "mail", "rcpt"}
             \/ /\ probe.session.fail_step = "quit"
                /\ probe.session.fail_kind = "SMTPResponseException" )
             => FailedOpen(probe.result)
        /\ ( /\ probe.session.fail_step = "quit"
             /\ probe.session.fail_kind \in {"socket.timeout", "SMTPServerDisconnected"} )
             => probe.result.smtp_status =
                    ClassifyRcpt(probe.session.code, extract_domain(probe.email)).smtp_status

\* a probe of a non-provider domain whose server answers 550 and then
\* replies to QUIT with something other than 221: the except clause turns
\* the invalid verdict into unverifiable
C10_Witness ==
    /\ ProbedValidDomain
    /\ probe.session.fail_step = "quit"
    /\ probe.session.fail_kind = "SMTPResponseException"
    /\ probe.session.code = 550
    /\ ~IsMajorProvider(extract_domain(probe.email))
    /\ FailedOpen(probe.result)

(***************************************************************************)
(* Claims about one background run (specification SpecRun)                 *)
(***************************************************************************)
\* C3: in a run with SMTP enabled, the validated_count written to the job
\* (pre-check updates, then progress_callback updates, then the final
\* update) never goes down from one state to the next.
C3_ValidatedNonDecreasing ==
    [][(effective_include_smtp /\ RunJob \in DOMAIN jobs) =>
          jobs'[RunJob].validated_count >= jobs[RunJob].validated_count]_vars

\* validate_smtp_batch_with_progress has returned
BatchReturned ==
    /\ effective_include_smtp
    /\ rpc \in {"catchall", "finish", "except", "done"}
    /\ exc.at /= "precheck"

Submitted == {emails[i] : i \in 1 .. Len(emails)}

\* what the as_completed loop stores for future k
StoredFor(k) ==
    IF pool.fut[k].raised THEN ThreadErrorResult ELSE pool.fut[k].result

\* C4: when validate_smtp_batch_with_progress returns, the keys of its
\* result are exactly the submitted addresses, every task has run, and each
\* address maps to the result of a task for it, which is the thread-error
\* result when that task raised.
C4_EveryAddressHasOneResult ==
    BatchReturned =>
        /\ DOMAIN smtp_results = Submitted
        /\ Len(pool.fut) = Len(emails)
        /\ \A k \in 1 .. Len(pool.fut) : pool.fut[k].state = "done"
        /\ \A e \in Submitted :
              \E k \in 1 .. Len(pool.fut) :
                  pool.fut[k].email = e /\ smtp_results[e] = StoredFor(k)

\* the batch has returned, one task raised and another address was verified
C4_Witness ==
    /\ BatchReturned
    /\ \E k, j \in 1 .. Len(pool.fut) :
          /\ pool.fut[k].raised
          /\ ~pool.fut[j].raised
          /\ pool.fut[j].email /= pool.fut[k].email
          /\ smtp_results[pool.fut[k].email] = ThreadErrorResult
          /\ smtp_results[pool.fut[j].email].smtp_status = "verified"

\* C5: at no point of the batch are more than max_workers probes running.
C5_AtMostMaxWorkersInFlight ==
    InFlight <= pool.max_workers

\* as many probes run as max_workers allows while a further task waits
C5_Witness ==
    /\ pool.max_workers >= 1
    /\ InFlight = pool.max_workers
    /\ \E k \in 1 .. Len(pool.fut) : Pending(k)

\* the catch-all phase of the run is over
CatchallPhaseOver ==
    /\ effective_include_smtp
    /\ rpc \in {"finish", "except", "done"}
    /\ exc.at /= "precheck"

\* the domains of the submitted addresses
SubmittedDomains ==
    {extract_domain(normalize_email(e)) : e \in Submitted} \ {<< >>}

C7_PrecheckOnlyCompletes ==
    ( /\ rpc = "done"
      /\ ~effective_include_smtp
      /\ Len(emails) > 0
      /\ exc.at /= "precheck" )
    => /\ jobs[RunJob].status = "completed"
       /\ PercentIs100(get_progress_percent(jobs, RunJob))
       /\ pool.fut = << >>
       /\ catchall_checks = EmptyMap

\* C8: when an exception reached the except clause of the run, the job
\* ends failed with its error field set.
C8_ExceptionMarksFailedWithError ==
    (rpc = "done" /\ exc.raised)
    => /\ jobs[RunJob].status = "failed"
       /\ jobs[RunJob].error /= None

(***************************************************************************)
(* Claims about the classification of the RCPT reply (SpecProbe)           *)
(***************************************************************************)
Triple(r) == << r.mailbox_exists, r.smtp_status, r.confidence >>

\* a probe was attempted and the session ended without any failure
ProbedCleanSession ==
    /\ ProbedValidDomain
    /\ probe.session.fail_step = "none"

\* the domain is one of the large providers, or a subdomain of one
LabelTokens == { "mail." }
IsKnownLargeProvider(domain) ==
    /\ domain /= << >>
    /\ domain[Len(domain)] \in major_providers
    /\ \A i \in 1 .. (Len(domain) - 1) : domain[i] \in LabelTokens

\* C11: a 550 reply yields (false, invalid, high) for every domain that is
\* not a known large provider and (true, unverifiable, medium) only for a
\* domain that is one.
C11_PermanentReject ==
    (ProbedCleanSession /\ probe.session.code = 550) =>
        Triple(probe.result) =
            IF IsKnownLargeProvider(extract_domain(probe.email))
            THEN << TRUE, "unverifiable", "medium" >>
            ELSE << FALSE, "invalid", "high" >>

AcceptCodes == { 250, 251 }
TemporaryFailureCodes == { 450, 451, 452 }
ServiceUnavailableCodes == { 421, 554 }
PermanentRejectCodes == { 550 }

\* the classification table, for the codes other than the permanent reject
TableTriple(code) ==
    IF code \in AcceptCodes THEN << TRUE, "verified", "high" >>
    ELSE IF code \in TemporaryFailureCodes THEN << TRUE, "unverifiable", "medium" >>
    ELSE << TRUE, "unverifiable", "low" >>

\* C12 as claimed: for every reply code to RCPT TO (other than the
\* permanent reject) the result carries the triple of the table.
C12_TableForEveryCode ==
    ( /\ ProbedValidDomain
      /\ RcptAnswered(probe.session)
      /\ probe.session.code \notin PermanentRejectCodes )
    => Triple(probe.result) = TableTriple(probe.session.code)

\* C12 as amended: the result carries the triple of the table (250, 251:
\* verified high; 450, 451, 452: unverifiable medium; 421, 554 and every
\* other code but 550: unverifiable low) whenever no exception leaves the
\* session, that is unless the closing QUIT is answered by a reply other
\* than 221, which turns every verdict into unverifiable low.
C12_TableUnlessQuitRejected ==
    ( /\ ProbedValidDomain
      /\ RcptAnswered(probe.session)
      /\ probe.session.code \notin PermanentRejectCodes )
    => Triple(probe.result) =
          IF SessionRaises(probe.session) THEN << TRUE, "unverifiable", "low" >>
          ELSE TableTriple(probe.session.code)

\* a session without failure whose RCPT TO got a temporary-failure reply
C12_Witness ==
    /\ ProbedCleanSession
    /\ probe.session.code = 451
    /\ Triple(probe.result) = << TRUE, "unverifiable", "medium" >>

(***************************************************************************)
(* Claims about skipped probes (SpecRun)                                   *)
(***************************************************************************)
\* the final merge of the run has been made
Merged ==
    /\ effective_include_smtp
    /\ rpc \in {"finish", "except", "done"}
    /\ exc.at /= "precheck"

\* the validity phase 1 gave the address of a result
PrecheckValid(r) == validate_syntax(r.email) /\ r.domain.valid

\* C13: a probe of an address whose domain record is not valid opens no
\* connection and returns skipped true with mailbox_exists and valid false;
\* and after the merge an address whose probe was skipped has the validity
\* the pre-checks gave it.
C13_SkippedProbe ==
    /\ \A k \in 1 .. Len(pool.fut) :
          ( /\ pool.fut[k].state = "done"
            /\ ~pool.fut[k].raised
            /\ extract_domain(pool.fut[k].email) /= << >>
            /\ ~pool.fut[k].domain_check.valid )
          => /\ pool.fut[k].steps = << >>
             /\ pool.fut[k].result.skipped
             /\ ~pool.fut[k].result.mailbox_exists
             /\ ~pool.fut[k].result.valid
    /\ Merged =>
          \A i \in 1 .. Len(validation_results) :
              ( /\ validation_results[i].smtp.present
                /\ validation_results[i].smtp.skipped )
              => validation_results[i].valid = PrecheckValid(validation_results[i])

\* the probe of an address on a domain without records was skipped and its
\* result merged
C13_Witness ==
    /\ Merged
    /\ \E i \in 1 .. Len(validation_results) :
          /\ validation_results[i].smtp.present
          /\ validation_results[i].smtp.skipped
          /\ ~validation_results[i].domain.valid
    /\ \E k \in 1 .. Len(pool.fut) :
          pool.fut[k].state = "done" /\ ~pool.fut[k].raised
          /\ pool.fut[k].result.skipped /\ pool.fut[k].steps = << >>

(***************************************************************************)
(* Claims about check_catchall_domain (SpecCatchall)                       *)
(***************************************************************************)
DetectReturned == detect.pc = "returned"

TrialAccepted(s) == RcptAnswered(s) /\ s.code \in AcceptCodes
TrialRejected(s) == RcptAnswered(s) /\ s.code \notin AcceptCodes

AcceptedTrials ==
    Cardinality({i \in 1 .. num_tests : TrialAccepted(detect.trials[i])})
RejectedTrials ==
    Cardinality({i \in 1 .. num_tests : TrialRejected(detect.trials[i])})

Verdict(r) == << r.is_catchall, r.confidence >>

\* C14 as claimed: with two trials the verdict is fixed by the number of
\* accepted trials: 0 -> not catch-all, high; 1 -> catch-all, medium;
\* 2 -> catch-all, high.
C14_VerdictByAcceptedCount ==
    DetectReturned =>
        Verdict(detect.result) =
            CASE AcceptedTrials = 0 -> << FALSE, "high" >>
              [] AcceptedTrials = 1 -> << TRUE, "medium" >>
              [] AcceptedTrials = 2 -> << TRUE, "high" >>

\* C14 as amended: 2 accepted -> catch-all, high; 1 accepted -> catch-all,
\* medium; 0 accepted and at least one trial rejected -> not catch-all,
\* high; 0 accepted and none rejected (no trial got a reply to RCPT TO) ->
\* not catch-all, low.
C14_VerdictByAcceptedAndRejected ==
    DetectReturned =>
        Verdict(detect.result) =
            CASE AcceptedTrials = 2 -> << TRUE, "high" >>
              [] AcceptedTrials = 1 -> << TRUE, "medium" >>
              [] AcceptedTrials = 0 /\ RejectedTrials > 0 -> << FALSE, "high" >>
              [] AcceptedTrials = 0 /\ RejectedTrials = 0 -> << FALSE, "low" >>

\* both trials were accepted
C14_Witness ==
    /\ DetectReturned
    /\ AcceptedTrials = 2
    /\ Verdict(detect.result) = << TRUE, "high" >>

\* C15: when every trial fails before a reply to RCPT TO is read, the
\* result is not catch-all with confidence low and carries the note that
\* the status could not be determined; and no exception leaves the call.
C15_AllTrialsFailed ==
    /\ detect.pc /= "raised"
    /\ ( /\ DetectReturned
         /\ \A i \in 1 .. num_tests : ~RcptAnswered(detect.trials[i]) )
       => /\ Verdict(detect.result) = << FALSE, "low" >>
          /\ InErrors(detect.result.errors, "Unable to determine catch-all status")

\* one trial timed out while connecting, the other was refused
C15_Witness ==
    /\ DetectReturned
    /\ detect.trials[1].fail_step = "connect"
    /\ detect.trials[1].fail_kind = "socket.timeout"
    /\ detect.trials[2].fail_step = "connect"
    /\ detect.trials[2].fail_kind = "ConnectionRefusedError"
    /\ Verdict(detect.result) = << FALSE, "low" >>

(***************************************************************************)
(* Claims about the domain cache (SpecDns)                                 *)
(***************************************************************************)
\* C16: at most one DNS resolution is made per domain, also when threads
\* call validate_domain for the same uncached domain at the same time.
C16_OneResolutionPerDomain ==
    dcall.pc /= "idle" =>
        \A d \in DOMAIN dcall.resolutions : dcall.resolutions[d] <= 1

\* C17: a validate_domain call made after a call for the same domain has
\* returned makes no DNS lookup and returns the data of the first result.
C17_LaterCallsReuseFirstResult ==
    dcall.pc /= "idle" =>
        \A t \in DnsThreads :
            ( /\ dcall.calls[t].pc = "done"
              /\ dcall.calls[t].late )
            => /\ dcall.calls[t].lookups = 0
               /\ dcall.calls[t].result = dcall.first[extract_domain(dcall.calls[t].email)]

(***************************************************************************)
(* Claims about the progress of a run (SpecRun)                            *)
(***************************************************************************)
\* the percent of p is the weighted position tenths/10 + (1 - tenths/10) *
\* done/of of the bar, to the precision of one address: the count behind p
\* is the floor of that share of total
PercentAtShare(p, total, tenths, done, of) ==
    LET share == tenths * of + (10 - tenths) * done     \* in units of 1/(10*of)
        count == (total * share) \div (10 * of)
    IN p.num * total = 100 * count * p.den

\* C18: with SMTP enabled the exposed percent is 40% when the pre-check
\* phase has processed every address and 40% + 60% * completed/total while
\* probe results are collected; with SMTP disabled it is the share of
\* addresses the pre-check phase has processed.
C18_WeightedPercent ==
    LET p == get_progress_percent(jobs, RunJob) IN
    /\ (effective_include_smtp /\ rpc = "prechecked")
          => PercentAtShare(p, total_emails, PrecheckWeightTenths, 0, 1)
    /\ (effective_include_smtp /\ rpc = "collect" /\ pool.completed > 0)
          => PercentAtShare(p, total_emails, PrecheckWeightTenths,
                            pool.completed, Len(emails))
    /\ (~effective_include_smtp /\ rpc \in {"precheck", "prechecked"})
          => PercentAtShare(p, total_emails, 0, Len(validation_results), total_emails)

(***************************************************************************)
(* Claims about the remaining-time estimate (SpecEta)                      *)
(***************************************************************************)
\* the last poll found a running job with a validated_count other than 0
EstimateDue ==
    /\ eta.pc = "polled"
    /\ eta.found
    /\ eta.job.status = "running"
    /\ eta.job.validated_count /= 0

\* C19 as stated: None when validated_count is 0 or the job is not running,
\* otherwise exactly (elapsed / validated_count) * (total_emails -
\* validated_count) seconds.
C19_EstimateEqualsFormula ==
    eta.pc = "polled" =>
        /\ eta.result.none <=> ~EstimateDue
        /\ EstimateDue =>
              eta.result.seconds * eta.job.validated_count * MicrosPerSecond
                 = eta.at * (eta.job.total_emails - eta.job.validated_count)

\* C19: estimate_time_remaining returns None when the job is missing, not
\* running or has validated_count 0; otherwise it returns the whole number
\* of seconds obtained from (elapsed / validated_count) * (total_emails -
\* validated_count) by dropping the fraction (rounding toward zero).
C19_EstimateIsFormulaTruncated ==
    eta.pc = "polled" =>
        /\ eta.result.none <=> ~EstimateDue
        /\ EstimateDue =>
              LET exact_num == eta.at * (eta.job.total_emails - eta.job.validated_count)
                  den       == eta.job.validated_count * MicrosPerSecond
                  got       == eta.result.seconds
              IN IF exact_num >= 0
                 THEN got * den <= exact_num /\ exact_num < (got + 1) * den
                 ELSE (got - 1) * den < exact_num /\ exact_num <= got * den

\* a running job with 2 of 3 addresses validated polled after 1.5 s: the
\* formula gives 0.75 s and the call returns 0
C19_Witness ==
    /\ EstimateDue
    /\ eta.job.validated_count = 2
    /\ eta.job.total_emails = 3
    /\ eta.at = 3 * (MicrosPerSecond \div 2)
    /\ eta.result = [none |-> FALSE, seconds |-> 0]

(***************************************************************************)
(* Claims about the rate of progress updates (SpecUnits)                   *)
(***************************************************************************)
\* N of the claim: 10 for batches of more than 200 addresses, else 1
UpdateEvery(total) == IF total > 200 THEN 10 ELSE 1

\* C20: in both phases an update is pushed for a unit only when the
\* completed count is a multiple of N, or a second has passed since the
\* last update, or the unit is the last one of its phase; and the last unit
\* of a phase always pushes.
C20_UpdatesAreThrottled ==
    LET u == units.last IN
    (units.pc /= "idle" /\ u.phase /= "none") =>
        /\ u.pushed => \/ u.completed % UpdateEvery(units.total_emails) = 0
                       \/ u.elapsed
                       \/ u.completed = units.total_emails
        /\ u.completed = units.total_emails => u.pushed

(***************************************************************************)
(* Claims about several jobs in one tracker (SpecJobs)                     *)
(***************************************************************************)
\* thread t is inside the body of update_progress / complete_job for job j
InsideCallOn(t, j) ==
    /\ call[t].op \in {"update_progress", "complete_job"}
    /\ call[t].pc >= 1
    /\ call[t].job_id = j

\* C21: a step of update_progress or complete_job changes no job other
\* than the job the call names; a call naming an id the tracker does not
\* hold changes no job, and no call adds a job.
C21_JobsAreIndependent ==
    [][ /\ \A b \in DOMAIN jobs :
              /\ b \in DOMAIN jobs'
              /\ jobs'[b] /= jobs[b] => \E t \in Threads : InsideCallOn(t, b)
        /\ (\E t \in Threads : call'[t] /= call[t]) =>
              /\ DOMAIN jobs' = DOMAIN jobs
              /\ DOMAIN disk' = DOMAIN jobs
              /\ \A b \in DOMAIN jobs \cap DOMAIN disk :
                    (disk'[b] /= disk[b]) => disk'[b] = jobs[b]
        /\ (\E t \in Threads :
               call[t].pc >= 1 /\ call'[t] /= call[t] /\ call[t].job_id \notin DOMAIN jobs)
              => jobs' = jobs /\ disk' = disk ]_vars

\* both jobs exist, one was completed by a call and the other is still as
\* create_job stored it, and a call with the unknown id is under way
C21_Witness ==
    /\ DOMAIN jobs = TwoJobIds
    /\ jobs["j1"].status = "failed"
    /\ jobs["j1"].validated_count = MaxCount
    /\ jobs["j2"] = NewJob(MaxCount)
    /\ \E t \in Threads : call[t].job_id = UnknownJobId /\ call[t].pc = 1

(***************************************************************************)
(* Claims about the DNS outcomes of validate_domain (SpecResolve)          *)
(***************************************************************************)
\* thread t's call made the lookups itself and has returned
ResolvedCall(t) ==
    /\ dcall.calls[t].pc = "done"
    /\ dcall.calls[t].lookups > 0

\* the outcomes named by the claim (an exception of another kind is not)
NamedOutcomes == {"found", "NXDOMAIN", "NoAnswer", "NoNameservers", "Timeout"}

\* the reason that names the failure kind k of a lookup
ReasonsNaming(k) ==
    CASE k = "NXDOMAIN"      -> {"does not exist"}
      [] k = "NoAnswer"      -> {"has no A records", "no valid MX or A records"}
      [] k = "NoNameservers" -> {"No nameservers"}
      [] k = "Timeout"       -> {"timeout"}
      [] OTHER               -> {}

\* C22: for every pair of MX and A outcomes (found, NXDOMAIN, no answer,
\* no nameservers, timeout) a resolving validate_domain call returns
\* valid = has_mx or has_a with has_mx exactly when MX records were found
\* and has_a exactly when none were and A records were, sends the A query
\* only when no MX records were found, and gives every invalid record at
\* least one error that names the failure kind of one of its lookups.
C22_DomainRecordOfOutcomes ==
    dcall.pc /= "idle" =>
        \A t \in DnsThreads :
            ( /\ ResolvedCall(t)
              /\ dcall.calls[t].mx \in NamedOutcomes
              /\ dcall.calls[t].a \in NamedOutcomes )
            => LET c == dcall.calls[t]
                   r == c.result
               IN /\ r.valid = (r.has_mx \/ r.has_a)
                  /\ r.has_mx = (c.mx = "found")
                  /\ r.has_a = (c.mx /= "found" /\ c.a = "found")
                  /\ (\E i \in 1 .. Len(c.queried) : c.queried[i] = "A") <=> c.mx /= "found"
                  /\ ~r.valid => \E i \in 1 .. Len(r.errors) :
                                    r.errors[i] \in ReasonsNaming(c.mx) \cup ReasonsNaming(c.a)

\* a call for timeout.com whose MX query found no nameservers and whose A
\* query timed out: invalid, with the nameserver reason alone
C22_Witness ==
    /\ dcall.pc /= "idle"
    /\ \E t \in DnsThreads :
          /\ ResolvedCall(t)
          /\ extract_domain(dcall.calls[t].email) = << "timeout", ".com" >>
          /\ dcall.calls[t].mx = "NoNameservers"
          /\ dcall.calls[t].a = "Timeout"
          /\ dcall.calls[t].queried = << "MX", "A" >>
          /\ dcall.calls[t].result.errors = << "No nameservers" >>
          /\ ~dcall.calls[t].result.valid

(***************************************************************************)
(* Claims about EmailTracker (SpecTracker)                                 *)
(***************************************************************************)
Elements(list) == {list[i] : i \in 1 .. Len(list)}

\* the last call was check_duplicates(F) and its result tells the tracked
\* addresses of F from the new ones
CheckResultIsRight ==
    /\ (tracker.pc /= "idle" /\ tracker.last.op = "check_duplicates") =>
          LET F == tracker.last.emails
              r == tracker.last.result
              keys == {LowerStrip(F[i]) : i \in 1 .. Len(F)}
          IN /\ Elements(r.duplicate_emails) = keys \cap tracker.tracked
             /\ Elements(r.new_emails) = keys \ tracker.tracked
             /\ r.new_count = Len(r.new_emails)
             /\ r.duplicate_count = Len(r.duplicate_emails)
             /\ r.new_count + r.duplicate_count = Len(F)
             /\ r.total_checked = Len(F)
    /\ tracker.pc /= "idle" => DOMAIN tracker.emails = tracker.tracked

\* C23: check_duplicates(F) reports an address as duplicate exactly when
\* its lowercased, trimmed form was passed to an earlier track_emails and
\* as new otherwise, new_count + duplicate_count is the number of addresses
\* of F, and the call leaves the tracked records and counters as they were.
C23_DuplicatesAreTrackedAddresses ==
    /\ []CheckResultIsRight
    /\ [][(tracker.pc /= "idle" /\ tracker'.last.op = "check_duplicates")
            => /\ tracker'.emails = tracker.emails
               /\ tracker'.total_uploads = tracker.total_uploads]_vars

\* a@x.com was tracked, and a list with " A@X.COM" and info@x.com is
\* checked: one duplicate, one new
C23_Witness ==
    /\ tracker.pc /= "idle"
    /\ tracker.last.op = "check_duplicates"
    /\ tracker.tracked = { << "a", At, "x.com" >> }
    /\ tracker.last.emails = << << " ", "A", At, "X.COM" >>, << "info", At, "x.com" >> >>
    /\ tracker.last.result.duplicate_emails = << << "a", At, "x.com" >> >>
    /\ tracker.last.result.new_emails = << << "info", At, "x.com" >> >>

\* the outcome passed for an address of the last track_emails call is in
\* its record, under the key validation_status
OutcomeStoredAsValidationStatus ==
    (tracker.pc /= "idle" /\ tracker.last.op = "track_emails") =>
        \A k \in DOMAIN tracker.validated :
            RecordGet(tracker.emails[k], "validation_status") = PyBool(tracker.validated[k])

\* C24: after track_emails with validation results every tracked record
\* holds the outcome as validation_status, export_emails(valid_only=True)
\* returns exactly the tracked addresses whose last validation passed, and
\* export_emails(valid_only=False) returns every tracked address.
C24_ExportFollowsValidation ==
    /\ OutcomeStoredAsValidationStatus
    /\ (tracker.pc /= "idle" /\ tracker.last.op = "export_emails") =>
          tracker.last.result =
             IF tracker.last.valid_only
             THEN {k \in DOMAIN tracker.validated : tracker.validated[k]}
             ELSE tracker.tracked

(***************************************************************************)
(* Claims about the end of a run (SpecRunFair)                             *)
(***************************************************************************)
\* C25: under fair scheduling the job of a run, empty batch included,
\* eventually has the status completed or failed and keeps it.
C25_JobEventuallyTerminal ==
    <>[](RunJob \in DOMAIN jobs /\ Terminal(jobs[RunJob].status))

\* a run with SMTP whose probes were all collected has ended, its job failed
C25_Witness ==
    /\ rpc = "done"
    /\ effective_include_smtp
    /\ Len(emails) = MaxFairEmails
    /\ pool.completed = Len(emails)
    /\ jobs[RunJob].status = "failed"


\* C26: a poller calling get_job while update_progress runs never reads a
\* torn record: whenever the record that get_job hands out (self.jobs[job_id]
\* itself, read without the lock) changes, it changes to the record a whole
\* call leaves, so all counters and the status come from one completed update
C26_NoTornSnapshot ==
    [][jobs' /= jobs => jobs' = serial']_vars


\* C27: polling is read-only: a GET /api/jobs/<job_id> request leaves the
\* record the tracker stores for the job as it was, with the same fields and
\* the same values
C27_PollingIsReadOnly ==
    [][P_GetJobStatus => jobs' = jobs]_vars


\* C28: in every state of the job that a poller can read during a run, in
\* the pre-check phase and in the probe phase, valid_count + invalid_count
\* is at most validated_count
C28_OutcomesWithinValidated ==
    RunJob \in DOMAIN jobs =>
        jobs[RunJob].valid_count + jobs[RunJob].invalid_count
            <= jobs[RunJob].validated_count


\* C29: the personal_count that the run writes to the job (valid minus
\* disposable minus role-based) is never negative, whatever the mix of
\* valid, invalid, disposable and role-based addresses in the batch
C29_PersonalCountNonNegative ==
    RunJob \in DOMAIN jobs => jobs[RunJob].personal_count >= 0


\* the probe result that validate_smtp_batch_with_progress returned for the
\* i-th address of the batch
ProbeOf(i) == smtp_results[emails[i]]

\* the i-th result is valid after the merge exactly when it was valid
\* before it (the pre-check verdict) and the probe of its address was
\* skipped or returned valid
MergedAsClaimed(i) ==
    validation_results'[i].valid <=>
        ( /\ validation_results[i].valid
          /\ emails[i] \in DOMAIN smtp_results
          /\ (ProbeOf(i).skipped \/ ProbeOf(i).valid) )

====
